---- MODULE Spec2Model ----
(***************************************************************************)
(* A model of github.com/gomcpgo/mcp: the MCP dispatch core (pkg/server),  *)
(* the stdio transport (pkg/transport) and the async operation executor    *)
(* (pkg/async).                                                            *)
(*                                                                         *)
(* SpecServer    - Server.Run and Server.handleRequest, one task per       *)
(*                 request                                                 *)
(* SpecTransport - StdioTransport (read loop, Stop, Send) under Server.Run *)
(* SpecRun       - Server.Run on the transport, with the handlers          *)
(* SpecExec      - OperationExecutor.Execute / Continue / Cancel, the      *)
(*                 worker goroutine and the registry's sweeper, with a     *)
(*                 discrete clock                                          *)
(* SpecSweep, SpecStop, SpecWaiters, SpecIds - the executor without        *)
(*                 Continue, with Stop, with several callers of Continue,  *)
(*                 with ids from the random source                         *)
(***************************************************************************)
EXTENDS Integers, Sequences, FiniteSets, TLC

(***************************************************************************)
(* Bounds of the model.                                                    *)
(***************************************************************************)
\* number of requests the transport delivers to Server.Run
MaxReqs == 2
\* number of Execute calls (operations) made on the executor
MaxOps == 1
MaxWaiters == 1
\* the clock runs from 0 to MaxTime
MaxTime == 4

(***************************************************************************)
(* pkg/protocol: methods and error codes.                                  *)
(***************************************************************************)
MethodInitialize == "initialize"
NotificationInitialized == "notifications/initialized"
MethodInitialized == "initialized"
MethodToolsList == "tools/list"
MethodToolsCall == "tools/call"
MethodResourcesList == "resources/list"
MethodResourcesRead == "resources/read"
MethodPromptsList == "prompts/list"
MethodPromptsGet == "prompts/get"
\* a method outside the dispatch table
MethodOther == "notifications/cancelled"

InvalidParams == -32602
InternalError == -32603

Methods ==
    { MethodInitialize, NotificationInitialized, MethodInitialized,
      MethodToolsList, MethodToolsCall, MethodResourcesList,
      MethodResourcesRead, MethodPromptsList, MethodPromptsGet, MethodOther }

\* the methods whose handling decodes req.Params
ParamMethods ==
    { MethodInitialize, MethodToolsCall, MethodResourcesRead, MethodPromptsGet }

\* Request.ID is an interface{}: nil when the message carries no id, here the
\* empty tuple; an id n is the tuple <<n>>
NoId == <<>>

\* Request.Params as raw JSON: an object, or anything json.Unmarshal does not
\* decode into a struct (a JSON string such as "not an object", or no params
\* at all, which is the empty input)
ParamVals == { "object", "string" }

\* json.Unmarshal(params, &v) for the request structs of pkg/protocol (all
\* of them structs): nil exactly for a JSON object
UnmarshalOK(params) == params = "object"

\* a nil error
NoError == ""

\* pkg/handler: the registry has one field per capability category, a
\* ToolHandler, ResourceHandler or PromptHandler interface value; nil when no
\* handler is registered
Categories == { "tools", "resources", "prompts" }
NilHandler == "nil"
Handlers == { "h1", "h2" }

NewHandlerRegistry == [c \in Categories |-> NilHandler]

\* the registry after a handler was registered for each category of S
RegistryWith(S) == [c \in Categories |-> IF c \in S THEN "h1" ELSE NilHandler]

NoReq == [id |-> NoId, method |-> "none", params |-> "object"]

\* a nil result of a capability handler
NilResult == [key |-> "nil", list |-> <<>>]

VARIABLES
    \* ---- pkg/server
    registry,      \* HandlerRegistry: the handler of each category, or nil
    calls,         \* the calls made on the HandlerRegistry, with what they returned
    runPc,         \* Server.Run: "loop" or "returned"
    requestCount,  \* Server.Run's requestCount
    stopped,       \* transport.Stop has been called (Run's defer)
    tasks,         \* per spawned handleRequest goroutine: its pc and request
    sendCalls,     \* per goroutine: the Responses it passed to transport.Send
    \* ---- pkg/async
    now,           \* the wall clock (time.Now)
    config,        \* ExecutorConfig, after NewExecutor applied the defaults
    operations,    \* OperationRegistry.operations: the ops in the map
    ops,           \* the Operation records, by operation
    worker,        \* per operation: the goroutine Execute starts
    exec,          \* per operation: the Execute call that created it
    canc,          \* a caller of Cancel
    sweep,         \* OperationRegistry.cleanupExpired (it holds r.mu)
    cont,          \* callers of Continue
    stop,          \* OperationRegistry.Stop, r.stopCh and the ticker goroutine
    \* ---- pkg/transport
    transport,     \* StdioTransport: isClosed, mu, the channels, the output
    decoder,       \* the json.Decoder on stdin and what is left of the input
    readLoop,      \* the goroutine of StdioTransport.readLoop, and its ctx
    stops,         \* per caller of StdioTransport.Stop: its position
    sender,        \* the caller of StdioTransport.Send
    received       \* the errors Server.Run received on the error stream

svars == <<registry, calls, runPc, requestCount, stopped, tasks, sendCalls>>

evars == <<now, config, operations, ops, worker, exec, canc, sweep, cont>>

tvars == <<transport, decoder, readLoop, stops, sender, received>>

\* the shutdown of the executor, and the transport
xvars == <<stop, tvars>>

vars == <<svars, evars, xvars>>

Tasks == 1..MaxReqs

(***************************************************************************)
(* Server.sendResponse / Server.sendError: build the Response and call     *)
(* transport.Send once.                                                    *)
(***************************************************************************)
ResultResponse(id, result) ==
    [id |-> id, kind |-> "result", code |-> 0, body |-> result]

ErrorResponse(id, code, message) ==
    [id |-> id, kind |-> "error", code |-> code, body |-> message]

Send(t, response) ==
    sendCalls' = [sendCalls EXCEPT ![t] = Append(@, response)]

sendResponse(t, id, result) == Send(t, ResultResponse(id, result))

\* the bug of an error response that does not echo the request's id
sendError_DropsId(t, id, code, message) ==
    Send(t, ErrorResponse(NoId, code, message))

sendError(t, id, code, message) == Send(t, ErrorResponse(id, code, message))

(***************************************************************************)
(* Server.handleInitialize: capabilities by probing the registry.          *)
(***************************************************************************)
\* protocol.Version
Version == "2024-11-05"

\* the Options given to server.New: the name is left empty, the version is
\* set
Options == [Name |-> "", Version |-> "2.1.0"]

DefaultOptions == [Name |-> "mcp-server", Version |-> "1.0.0"]

\* server.New: a field of the options that is empty keeps its default
New(o) ==
    [Name |-> IF o.Name # "" THEN o.Name ELSE DefaultOptions.Name,
     Version |-> IF o.Version # "" THEN o.Version ELSE DefaultOptions.Version]

HasToolHandler == registry["tools"] # NilHandler
HasResourceHandler == registry["resources"] # NilHandler
HasPromptHandler == registry["prompts"] # NilHandler

\* the presence probe of a category
HasHandler(category) ==
    CASE category = "tools" -> HasToolHandler
      [] category = "resources" -> HasResourceHandler
      [] category = "prompts" -> HasPromptHandler

\* a nil pointer, and a pointer to an empty ToolsInfo, ResourcesInfo or
\* PromptsInfo
NilInfo == "nil"
EmptyInfo == "{}"

\* the protocol.Capabilities struct handleInitialize fills
Capabilities ==
    [Tools |-> IF HasToolHandler THEN EmptyInfo ELSE NilInfo,
     Resources |-> IF HasResourceHandler THEN EmptyInfo ELSE NilInfo,
     Prompts |-> IF HasPromptHandler THEN EmptyInfo ELSE NilInfo]

\* the keys of the JSON object the encoder writes for a Capabilities
\* struct: every field is tagged omitempty, a nil pointer is left out
CapabilityKeys(caps) ==
    (IF caps.Tools # NilInfo THEN {"tools"} ELSE {})
    \cup (IF caps.Resources # NilInfo THEN {"resources"} ELSE {})
    \cup (IF caps.Prompts # NilInfo THEN {"prompts"} ELSE {})

\* (a variant that always advertises tools)
handleInitialize_AlwaysTools(params) ==
    IF UnmarshalOK(params)
    THEN [err |-> "",
          result |-> [ProtocolVersion |-> Version,
                      ServerInfo |-> New(Options),
                      Capabilities |-> [Capabilities EXCEPT !.Tools = EmptyInfo]]]
    ELSE [err |-> "invalid initialization parameters", result |-> <<>>]

handleInitialize(params) ==
    IF UnmarshalOK(params)
    THEN [err |-> "",
          result |-> [ProtocolVersion |-> Version,
                      ServerInfo |-> New(Options),
                      Capabilities |-> Capabilities]]
    ELSE [err |-> "invalid initialization parameters", result |-> <<>>]

\* the capability category a method belongs to
Category(method) ==
    CASE method \in {MethodToolsList, MethodToolsCall} -> "tools"
      [] method \in {MethodResourcesList, MethodResourcesRead} -> "resources"
      [] method \in {MethodPromptsList, MethodPromptsGet} -> "prompts"
      [] OTHER -> "none"

ListMethods == { MethodToolsList, MethodResourcesList, MethodPromptsList }
CallMethods == { MethodToolsCall, MethodResourcesRead, MethodPromptsGet }

(***************************************************************************)
(* pkg/transport: StdioTransport, with Server.Run as the consumer of its   *)
(* request and error streams.                                              *)
(*                                                                         *)
(* The three channels are unbuffered.  A send completes only by handing    *)
(* the value to a receiver that is parked in its select; a select with a   *)
(* default case never parks.  A select with several ready cases takes any  *)
(* of them; a send case on a closed channel is ready and panics.  A        *)
(* goroutine parked in a select is woken by the first event that makes one *)
(* of its cases ready, and Stop closes done before requests and errors.    *)
(***************************************************************************)
\* what the client writes on stdin, message by message
\*   request    a JSON object that decodes into a protocol.Request
\*   typeError  well-formed JSON that does not fit protocol.Request
\*              (such as {"jsonrpc": 2}): json.Unmarshal fails
\*   syntax     text that is not JSON (such as "invalid json")
ItemRequest20 == [kind |-> "request", jsonrpc |-> "2.0", method |-> MethodToolsList]
ItemRequest10 == [kind |-> "request", jsonrpc |-> "1.0", method |-> MethodToolsList]
ItemTypeError == [kind |-> "typeError", jsonrpc |-> "", method |-> ""]
ItemSyntax == [kind |-> "syntax", jsonrpc |-> "", method |-> ""]
NoItem == [kind |-> "none", jsonrpc |-> "", method |-> ""]

InputItems == { ItemRequest20, ItemRequest10, ItemTypeError, ItemSyntax }

\* the inputs of at most MaxReqs messages
Inputs == UNION { [1..n -> InputItems] : n \in 0..MaxReqs }

\* after its last message the input is at end-of-file, ends in the middle
\* of a JSON value, or stays open and delivers nothing more
InputEnds == { "EOF", "truncated", "open" }

ErrEOF == "EOF"
ErrUnexpectedEOF == "unexpected EOF"
ErrSyntax == "invalid character 'i' looking for beginning of value"
ErrUnmarshalType == "json: cannot unmarshal number into Go struct field Request.jsonrpc of type string"
ErrTransportClosed == "transport is closed"
ErrWrite == "write error"

\* fmt.Errorf("decode error: %w", err) and
\* fmt.Errorf("invalid JSON-RPC version: %s", request.JSONRPC)
DecodeError(err) == "decode error: " \o err
VersionError(jsonrpc) == "invalid JSON-RPC version: " \o jsonrpc

\* the goroutines that call Stop: the read loop (its defer), Server.Run
\* (its defer) and the owner of the transport
StopCallers == { "readLoop", "Run", "owner" }

\* the owner calls Stop at most MaxStops times and Send at most MaxSends
\* times; Run records at most MaxErrs of the errors it receives
MaxStops == 1
MaxSends == 1
MaxErrs == 2

\* NewStdioTransport and Start, reading one of the inputs
NewStdioTransport(I, E) ==
    /\ transport = [isClosed |-> FALSE, mu |-> "free", done |-> "open",
                    requests |-> "open", errors |-> "open", written |-> 0]
    /\ decoder \in [input : I, end : E, err : {NoError}]
    /\ readLoop = [pc |-> "select", ctxDone |-> FALSE, item |-> NoItem,
                   err |-> NoError, panicking |-> FALSE]
    /\ stops = [c \in StopCallers |-> [pc |-> "idle", n |-> 0]]
    /\ sender = [pc |-> "idle", n |-> 0, res |-> NoError, late |-> FALSE]
    /\ received = <<>>

\* json.Decoder.Decode(&request) on the input: the error it returns, the
\* request it decoded, and the decoder afterwards.  An error of the scanner
\* or of the reader is kept in the decoder and returned by every later
\* call; an error of Unmarshal is not, the value has been consumed.
Decode(dec) ==
    IF dec.err # NoError
    THEN [err |-> dec.err, item |-> NoItem, dec |-> dec]
    ELSE IF dec.input = <<>>
    THEN LET e == IF dec.end = "EOF" THEN ErrEOF ELSE ErrUnexpectedEOF
         IN [err |-> e, item |-> NoItem, dec |-> [dec EXCEPT !.err = e]]
    ELSE LET head == Head(dec.input)
         IN CASE head.kind = "syntax" ->
                   [err |-> ErrSyntax, item |-> NoItem,
                    dec |-> [dec EXCEPT !.err = ErrSyntax]]
              [] head.kind = "typeError" ->
                   [err |-> ErrUnmarshalType, item |-> NoItem,
                    dec |-> [dec EXCEPT !.input = Tail(@)]]
              [] OTHER ->
                   [err |-> NoError, item |-> head,
                    dec |-> [dec EXCEPT !.input = Tail(@)]]

\* Decode blocks in the read of stdin while the input is open and empty
DecodeBlocks(dec) == dec.err = NoError /\ dec.input = <<>> /\ dec.end = "open"

(***************************************************************************)
(* InitServer: the state after server.New, before Run's loop.  Handlers    *)
(* are registered in the registry before the server is built.              *)
(***************************************************************************)
InitServer ==
    /\ registry \in { RegistryWith(S) : S \in SUBSET Categories }
    /\ calls = <<>>
    /\ runPc = "loop"
    /\ requestCount = 0
    /\ stopped = FALSE
    /\ tasks = [t \in Tasks |-> [pc |-> "none", req |-> NoReq,
                                  result |-> NilResult, err |-> NoError]]
    /\ sendCalls = [t \in Tasks |-> <<>>]
    /\ NewStdioTransport({<<>>}, {"open"})

(***************************************************************************)
(* Server.Run: one pass of the loop that receives a request and spawns     *)
(* handleRequest for it.  The client numbers its requests, or sends a      *)
(* message without id.                                                     *)
(***************************************************************************)
\* (a variant that handles each request before it receives the next)
RunReceive_Inline ==
    /\ runPc = "loop"
    /\ requestCount < MaxReqs
    /\ \A t \in Tasks : tasks[t].pc \in {"none", "done"}
    /\ \E method \in Methods, hasId \in BOOLEAN, p \in ParamVals :
          /\ (method \notin ParamMethods) => p = "object"
          /\ LET n == requestCount + 1
                 req == [id |-> IF hasId THEN <<n>> ELSE NoId,
                         method |-> method, params |-> p]
             IN /\ requestCount' = n
                /\ tasks' = [tasks EXCEPT ![n] =
                                [pc |-> "start", req |-> req,
                                 result |-> NilResult, err |-> NoError]]
    /\ UNCHANGED <<registry, calls, runPc, stopped, sendCalls, evars, xvars>>

RunReceive ==
    /\ runPc = "loop"
    /\ requestCount < MaxReqs
    /\ \E method \in Methods, hasId \in BOOLEAN, p \in ParamVals :
          /\ (method \notin ParamMethods) => p = "object"
          /\ LET n == requestCount + 1
                 req == [id |-> IF hasId THEN <<n>> ELSE NoId,
                         method |-> method, params |-> p]
             IN /\ requestCount' = n
                /\ tasks' = [tasks EXCEPT ![n] =
                                [pc |-> "start", req |-> req,
                                 result |-> NilResult, err |-> NoError]]
    /\ UNCHANGED <<registry, calls, runPc, stopped, sendCalls, evars, xvars>>

\* Server.Run: the request stream is closed, req == nil: return nil, and the
\* deferred transport.Stop runs.
RunReturn ==
    /\ runPc = "loop"
    /\ runPc' = "returned"
    /\ stopped' = TRUE
    /\ UNCHANGED <<registry, calls, requestCount, tasks, sendCalls, evars, xvars>>

(***************************************************************************)
(* Server.handleRequest, up to the call into a capability handler or to    *)
(* the response when no handler is called.                                 *)
(***************************************************************************)
Finish(t, pc) == tasks' = [tasks EXCEPT ![t].pc = pc]

\* the result built for a list method without handler, such as
\* &protocol.ListToolsResponse{Tools: []protocol.Tool{}}: the category's key
\* with an empty (non-nil) slice
ListResponse(category, list) == [key |-> category, list |-> list]

\* (a variant for a list method without handler that fails)
EmptyList_NotSupported(t, req, category) ==
    sendError(t, req.id, InternalError, category \o " not supported")

EmptyList(t, req, category) ==
    sendResponse(t, req.id, ListResponse(category, <<>>))

\* fmt.Errorf("tools not supported") and the like, and
\* fmt.Errorf("unknown method: %s", req.Method)
NotSupported(category) == category \o " not supported"

\* (a variant that does not name the method)
UnknownMethod_NoName(method) == "unknown method"

UnknownMethod(method) == "unknown method: " \o method

\* what the capability handlers return: the category's key with the
\* handler's list for a list method, the handler's result for the others
HandlerLists == { <<"a">>, <<>> }
HandlerErrors == { "tool failed", "no such resource" }

HandlerResult(method, list) ==
    IF method \in ListMethods
    THEN ListResponse(Category(method), list)
    ELSE [key |-> "content", list |-> list]

HandleRequest(t) ==
    /\ tasks[t].pc = "start"
    /\ LET req == tasks[t].req
           m == req.method
       IN CASE m = MethodInitialize ->
                 LET r == handleInitialize(req.params)
                 IN /\ IF r.err # ""
                       THEN sendError(t, req.id, InternalError, r.err)
                       ELSE sendResponse(t, req.id, r.result)
                    /\ Finish(t, "done")
            [] m \in {MethodInitialized, NotificationInitialized} ->
                 /\ Finish(t, "done")
                 /\ UNCHANGED sendCalls
            [] m \in ListMethods ->
                 IF HasHandler(Category(m))
                 THEN /\ Finish(t, "inHandler")
                      /\ UNCHANGED sendCalls
                 ELSE /\ EmptyList(t, req, Category(m))
                      /\ Finish(t, "done")
            [] m \in CallMethods ->
                 IF HasHandler(Category(m))
                 THEN IF ~UnmarshalOK(req.params)
                      THEN /\ sendError(t, req.id, InvalidParams,
                                        "Invalid " \o Category(m) \o " parameters")
                           /\ Finish(t, "done")
                      ELSE /\ Finish(t, "inHandler")
                           /\ UNCHANGED sendCalls
                 ELSE /\ sendError(t, req.id, InternalError,
                                   NotSupported(Category(m)))
                      /\ Finish(t, "done")
            [] OTHER ->
                 /\ sendError(t, req.id, InternalError, UnknownMethod(m))
                 /\ Finish(t, "done")
    /\ UNCHANGED <<registry, calls, runPc, requestCount, stopped, evars, xvars>>

\* the capability handler returns (result, nil) or (nil, err); handleRequest
\* sends the response or the internal error with err.Error()
\* (a variant that sends a fixed message)
HandlerReturn_FixedMessage(t) ==
    /\ tasks[t].pc = "inHandler"
    /\ \/ \E list \in HandlerLists :
             /\ sendResponse(t, tasks[t].req.id,
                             HandlerResult(tasks[t].req.method, list))
             /\ tasks' = [tasks EXCEPT
                            ![t].pc = "done",
                            ![t].result = HandlerResult(tasks[t].req.method, list)]
       \/ \E err \in HandlerErrors :
             /\ sendError(t, tasks[t].req.id, InternalError, "internal error")
             /\ tasks' = [tasks EXCEPT ![t].pc = "done", ![t].err = err]
    /\ UNCHANGED <<registry, calls, runPc, requestCount, stopped, evars, xvars>>

HandlerReturn(t) ==
    /\ tasks[t].pc = "inHandler"
    /\ \/ \E list \in HandlerLists :
             /\ sendResponse(t, tasks[t].req.id,
                             HandlerResult(tasks[t].req.method, list))
             /\ tasks' = [tasks EXCEPT
                            ![t].pc = "done",
                            ![t].result = HandlerResult(tasks[t].req.method, list)]
       \/ \E err \in HandlerErrors :
             /\ sendError(t, tasks[t].req.id, InternalError, err)
             /\ tasks' = [tasks EXCEPT ![t].pc = "done", ![t].err = err]
    /\ UNCHANGED <<registry, calls, runPc, requestCount, stopped, evars, xvars>>

(***************************************************************************)
(* pkg/async: the operation executor.                                      *)
(*                                                                         *)
(* Time is a discrete clock.  A goroutine blocked in a select returns in   *)
(* the tick in which one of its cases becomes ready (the clock does not    *)
(* advance past a ready select); within a tick every interleaving of the   *)
(* goroutines is possible.  The fields of an Operation are read and        *)
(* written without a lock by the worker, Cancel, the sweeper and the       *)
(* readers, so every write is a step of its own.                           *)
(***************************************************************************)
Ops == 1..MaxOps

\* the callers of Continue
Waiters == 1..MaxWaiters

StatusRunning == "running"
StatusCompleted == "completed"
StatusFailed == "failed"

\* a nil result, the empty operation id
NoResult == <<>>
\* the zero time.Time, long before every reading of the clock
ZeroTime == -1
NoOperationID == <<>>

ErrCancelled == "operation cancelled"
ErrLifetime == "operation exceeded maximum lifetime"
\* an error of the operation function's own
ErrOperation == "operation failed"
ErrNotFound == "operation not found"
ErrNotRunning == "operation is not running"

\* generateID: 4 random bytes as 8 hex characters.  Here the random source
\* does not repeat: operation i gets an id of its own.
generateID(i) == <<"id", i>>

\* opts.Type and the value the operation function computes
OpType(i) == <<"type", i>>
OpValue(i) == <<"value", i>>

\* ExecutorConfig values (in ticks) and opts.Timeout / waitTime values;
\* opts.Timeout = 0 selects config.DefaultTimeout
LifetimeVals == {1, 2}
RetentionVals == {1}
DefaultTimeoutVals == {1}
TimeoutVals == {0, 2}
WaitVals == {0, 1}

\* a record not yet created by Execute
NoOp ==
    [ID |-> NoOperationID, Status |-> "none", Result |-> NoResult,
     Error |-> NoError, StartTime |-> ZeroTime, EndTime |-> ZeroTime,
     closed |-> FALSE, cancelled |-> FALSE]

NoExecuteResult ==
    [Status |-> "none", OperationID |-> NoOperationID,
     OperationType |-> <<>>, Result |-> NoResult, Error |-> NoError,
     via |-> "none"]

\* the operation's own context is Done: its cancel handle was invoked, or
\* the deadline of context.WithTimeout(Background, MaxLifetime) has passed
CtxDone(i) ==
    \/ ops[i].cancelled
    \/ (ops[i].StartTime # ZeroTime /\ now >= ops[i].StartTime + config.MaxLifetime)

CtxErr(i) ==
    IF ops[i].cancelled THEN "context canceled" ELSE "context deadline exceeded"

\* (a variant in which only the zero time is ever old enough)
Exceeds_ZeroOnly(at, t, d) == t = ZeroTime

\* now.Sub(t) > d, with t possibly the zero time (then the difference is the
\* largest Duration)
Exceeds(at, t, d) == t = ZeroTime \/ at - t > d

\* the executor after NewExecutor, for the Execute calls O and the callers W
\* of Continue
InitExecutor(O, W) ==
    /\ now = 0
    /\ config \in [DefaultTimeout : DefaultTimeoutVals,
                   MaxLifetime : LifetimeVals,
                   RetentionPeriod : RetentionVals]
    /\ operations = {}
    /\ ops = [i \in O |-> NoOp]
    /\ worker = [i \in O |-> [pc |-> "idle", value |-> NoResult, err |-> NoError]]
    /\ exec = [i \in O |-> [pc |-> "idle", deadline |-> 0, res |-> NoExecuteResult]]
    /\ canc = [pc |-> "idle", op |-> 0, res |-> NoError, ok |-> {}]
    /\ sweep = [pc |-> "idle", at |-> 0, todo |-> {}, op |-> 0, enforced |-> {}]
    /\ cont = [k \in W |->
                  [pc |-> "idle", op |-> 0, deadline |-> 0, signalled |-> FALSE,
                   cancelOk |-> FALSE, res |->
                      [Status |-> "none", OperationID |-> NoOperationID,
                       OperationType |-> <<>>, Result |-> NoResult,
                       Error |-> NoError, Message |-> <<>>, err |-> NoError,
                       via |-> "none"]]]
    /\ stop = [pc |-> "idle", stopCh |-> "open", sweeper |-> "running"]

InitExec == InitExecutor(Ops, Waiters)

(***************************************************************************)
(* OperationExecutor.Execute, up to its select: the record is built,       *)
(* registry.Add inserts it (under r.mu), the worker goroutine is started.  *)
(***************************************************************************)
ExecuteStart(i) ==
    /\ exec[i].pc = "idle"
    /\ \A j \in DOMAIN exec : j < i => exec[j].pc # "idle"
    /\ sweep.pc = "idle"
    /\ \E t \in TimeoutVals :
          LET timeout == IF t = 0 THEN config.DefaultTimeout ELSE t
          IN exec' = [exec EXCEPT ![i] = [pc |-> "waiting",
                                          deadline |-> now + timeout,
                                          res |-> NoExecuteResult]]
    /\ ops' = [ops EXCEPT ![i] = [NoOp EXCEPT !.ID = generateID(i),
                                              !.Status = StatusRunning,
                                              !.StartTime = now]]
    /\ operations' = operations \cup {i}
    /\ worker' = [worker EXCEPT ![i].pc = "running"]
    /\ UNCHANGED <<now, config, canc, sweep, cont, svars, xvars>>

(***************************************************************************)
(* The worker goroutine of Execute.                                        *)
(***************************************************************************)
\* what operation(opCtx) may return: its value, an error of its own, or,
\* once its context is Done, the context's error
OperationReturns(i) ==
    { [value |-> OpValue(i), err |-> NoError],
      [value |-> NoResult, err |-> ErrOperation] }
    \cup (IF CtxDone(i) THEN { [value |-> NoResult, err |-> CtxErr(i)] } ELSE {})

\* result, err := operation(opCtx); op.EndTime = timeNow().Now()
WorkerReturn(i) ==
    /\ worker[i].pc = "running"
    /\ \E r \in OperationReturns(i) :
          worker' = [worker EXCEPT ![i] = [pc |-> "status", value |-> r.value,
                                           err |-> r.err]]
    /\ ops' = [ops EXCEPT ![i].EndTime = now]
    /\ UNCHANGED <<now, config, operations, exec, canc, sweep, cont, svars, xvars>>

\* op.Status = StatusFailed / StatusCompleted
WorkerStatus(i) ==
    /\ worker[i].pc = "status"
    /\ ops' = [ops EXCEPT ![i].Status =
                  IF worker[i].err # NoError THEN StatusFailed ELSE StatusCompleted]
    /\ worker' = [worker EXCEPT ![i].pc = "outcome"]
    /\ UNCHANGED <<now, config, operations, exec, canc, sweep, cont, svars, xvars>>

\* op.Error = err / op.Result = result
WorkerOutcome(i) ==
    /\ worker[i].pc = "outcome"
    /\ ops' = IF worker[i].err # NoError
              THEN [ops EXCEPT ![i].Error = worker[i].err]
              ELSE [ops EXCEPT ![i].Result = worker[i].value]
    /\ worker' = [worker EXCEPT ![i].pc = "defers"]
    /\ UNCHANGED <<now, config, operations, exec, canc, sweep, cont, svars, xvars>>

\* the deferred calls, last in first out: opCancel(), close(op.CompleteCh)
WorkerDefers(i) ==
    /\ worker[i].pc = "defers"
    /\ ops' = [ops EXCEPT ![i].cancelled = TRUE, ![i].closed = TRUE]
    /\ worker' = [worker EXCEPT ![i].pc = "done"]
    /\ UNCHANGED <<now, config, operations, exec, canc, sweep, cont, svars, xvars>>

(***************************************************************************)
(* Execute's select.                                                       *)
(***************************************************************************)
\* the terminal state as Execute and Continue read it: op.Error first, and
\* op.Result only when op.Error is nil
TerminalStatus(i) == IF ops[i].Error # NoError THEN StatusFailed ELSE StatusCompleted
TerminalResult(i) == IF ops[i].Error # NoError THEN NoResult ELSE ops[i].Result

ExecuteReturn(i, res) ==
    /\ exec' = [exec EXCEPT ![i] = [pc |-> "returned", deadline |-> 0, res |-> res]]
    /\ UNCHANGED <<now, config, operations, ops, worker, canc, sweep, cont, svars, xvars>>

\* case <-op.CompleteCh
ExecuteComplete(i) ==
    /\ exec[i].pc = "waiting"
    /\ ops[i].closed
    /\ ExecuteReturn(i, [NoExecuteResult EXCEPT
                            !.Status = TerminalStatus(i),
                            !.Result = TerminalResult(i),
                            !.Error = ops[i].Error,
                            !.via = "complete"])

RunningResult(i, via) ==
    [NoExecuteResult EXCEPT !.Status = StatusRunning,
                            !.OperationID = generateID(i),
                            !.OperationType = OpType(i),
                            !.via = via]

\* case <-timeNow().After(timeout)
ExecuteTimeout(i) ==
    /\ exec[i].pc = "waiting"
    /\ now >= exec[i].deadline
    /\ ExecuteReturn(i, RunningResult(i, "timeout"))

\* (a variant that invokes the operation's cancel handle as well)
ExecuteCtxDone_Cancels(i) ==
    /\ exec[i].pc = "waiting"
    /\ exec' = [exec EXCEPT ![i] = [pc |-> "returned", deadline |-> 0,
                                    res |-> RunningResult(i, "ctx")]]
    /\ ops' = [ops EXCEPT ![i].cancelled = TRUE]
    /\ UNCHANGED <<now, config, operations, worker, canc, sweep, cont, svars, xvars>>

\* case <-ctx.Done(): the caller cancels its context at any moment
ExecuteCtxDone(i) ==
    /\ exec[i].pc = "waiting"
    /\ ExecuteReturn(i, RunningResult(i, "ctx"))

(***************************************************************************)
(* OperationExecutor.Cancel.  registry.Get and the test of op.Status are   *)
(* one step, as is cancelFunc(); the three assignments follow one by one.  *)
(***************************************************************************)
\* Cancel(id of i) returns err
CancelReturn(i, err) == canc' = [canc EXCEPT !.pc = "idle", !.op = i, !.res = err]

\* (a variant without the test of op.Status)
CancelCall_NoStatusTest(i) ==
    /\ canc.pc = "idle"
    /\ sweep.pc = "idle"
    /\ IF i \notin operations
       THEN CancelReturn(i, ErrNotFound) /\ UNCHANGED ops
       ELSE /\ ops' = [ops EXCEPT ![i].cancelled = TRUE]
            /\ canc' = [canc EXCEPT !.pc = "status", !.op = i, !.res = "pending"]
    /\ UNCHANGED <<now, config, operations, worker, exec, sweep, cont, svars, xvars>>

CancelCall(i) ==
    /\ canc.pc = "idle"
    /\ sweep.pc = "idle"
    /\ IF i \notin operations
       THEN CancelReturn(i, ErrNotFound) /\ UNCHANGED ops
       ELSE IF ops[i].Status # StatusRunning
       THEN CancelReturn(i, ErrNotRunning) /\ UNCHANGED ops
       ELSE /\ ops' = [ops EXCEPT ![i].cancelled = TRUE]
            /\ canc' = [canc EXCEPT !.pc = "status", !.op = i, !.res = "pending"]
    /\ UNCHANGED <<now, config, operations, worker, exec, sweep, cont, svars, xvars>>

\* op.Status = StatusFailed
CancelStatus ==
    /\ canc.pc = "status"
    /\ ops' = [ops EXCEPT ![canc.op].Status = StatusFailed]
    /\ canc' = [canc EXCEPT !.pc = "error"]
    /\ UNCHANGED <<now, config, operations, worker, exec, sweep, cont, svars, xvars>>

\* op.Error = fmt.Errorf("operation cancelled")
CancelError ==
    /\ canc.pc = "error"
    /\ ops' = [ops EXCEPT ![canc.op].Error = ErrCancelled]
    /\ canc' = [canc EXCEPT !.pc = "endTime"]
    /\ UNCHANGED <<now, config, operations, worker, exec, sweep, cont, svars, xvars>>

\* op.EndTime = timeNow().Now(); return nil
CancelEndTime ==
    /\ canc.pc = "endTime"
    /\ ops' = [ops EXCEPT ![canc.op].EndTime = now]
    /\ canc' = [canc EXCEPT !.pc = "idle", !.res = NoError,
                            !.ok = @ \cup {canc.op}]
    /\ UNCHANGED <<now, config, operations, worker, exec, sweep, cont, svars, xvars>>

(***************************************************************************)
(* OperationRegistry.cleanupExpired, run by the ticker goroutine and by    *)
(* OperationExecutor.Cleanup: it holds r.mu for the whole pass, so Add and *)
(* Get wait for it; the fields of the records are not protected by r.mu.   *)
(* A pass over an empty map does nothing and is left out.  sweep.enforced  *)
(* notes the records on which a pass has enforced the maximum lifetime.    *)
(***************************************************************************)
SweepBegin ==
    /\ sweep.pc = "idle"
    /\ operations # {}
    /\ sweep' = [sweep EXCEPT !.pc = "loop", !.at = now, !.todo = operations]
    /\ UNCHANGED <<now, config, operations, ops, worker, exec, canc, cont, svars, xvars>>

\* (a variant that leaves running records alone)
SweepVisit_NoLifetime(i) ==
    /\ sweep.pc = "loop"
    /\ i \in sweep.todo
    /\ operations' =
          IF ops[i].Status # StatusRunning
                /\ Exceeds(sweep.at, ops[i].EndTime, config.RetentionPeriod)
          THEN operations \ {i} ELSE operations
    /\ sweep' = [sweep EXCEPT !.todo = @ \ {i}]
    /\ UNCHANGED <<now, config, ops, worker, exec, canc, cont, svars, xvars>>

\* one iteration of the range loop, up to the first assignment
SweepVisit(i) ==
    /\ sweep.pc = "loop"
    /\ i \in sweep.todo
    /\ IF ops[i].Status # StatusRunning
       THEN /\ operations' =
                  IF Exceeds(sweep.at, ops[i].EndTime, config.RetentionPeriod)
                  THEN operations \ {i} ELSE operations
            /\ sweep' = [sweep EXCEPT !.todo = @ \ {i}]
            /\ UNCHANGED ops
       ELSE IF Exceeds(sweep.at, ops[i].StartTime, config.MaxLifetime)
       THEN /\ ops' = [ops EXCEPT ![i].cancelled = TRUE]
            /\ sweep' = [sweep EXCEPT !.todo = @ \ {i}, !.pc = "status", !.op = i,
                                      !.enforced = @ \cup {i}]
            /\ UNCHANGED operations
       ELSE /\ sweep' = [sweep EXCEPT !.todo = @ \ {i}]
            /\ UNCHANGED <<operations, ops>>
    /\ UNCHANGED <<now, config, worker, exec, canc, cont, svars, xvars>>

\* op.Status = StatusFailed
SweepStatus ==
    /\ sweep.pc = "status"
    /\ ops' = [ops EXCEPT ![sweep.op].Status = StatusFailed]
    /\ sweep' = [sweep EXCEPT !.pc = "error"]
    /\ UNCHANGED <<now, config, operations, worker, exec, canc, cont, svars, xvars>>

\* op.Error = fmt.Errorf("operation exceeded maximum lifetime")
SweepError ==
    /\ sweep.pc = "error"
    /\ ops' = [ops EXCEPT ![sweep.op].Error = ErrLifetime]
    /\ sweep' = [sweep EXCEPT !.pc = "endTime"]
    /\ UNCHANGED <<now, config, operations, worker, exec, canc, cont, svars, xvars>>

\* op.EndTime = now
SweepEndTime ==
    /\ sweep.pc = "endTime"
    /\ ops' = [ops EXCEPT ![sweep.op].EndTime = sweep.at]
    /\ sweep' = [sweep EXCEPT !.pc = "loop", !.op = 0]
    /\ UNCHANGED <<now, config, operations, worker, exec, canc, cont, svars, xvars>>

\* the loop is over; the deferred r.mu.Unlock()
SweepEnd ==
    /\ sweep.pc = "loop"
    /\ sweep.todo = {}
    /\ sweep' = [sweep EXCEPT !.pc = "idle", !.at = 0]
    /\ UNCHANGED <<now, config, operations, ops, worker, exec, canc, cont, svars, xvars>>

(***************************************************************************)
(* The ticker goroutine of startCleanup and OperationRegistry.Stop (called  *)
(* by OperationExecutor.Stop).  The goroutine's select takes the ticker or  *)
(* the closed stop channel, whichever Go picks when both are ready.         *)
(***************************************************************************)
\* case <-ticker.C: r.cleanupExpired()
TickerFires ==
    /\ stop.sweeper = "running"
    /\ SweepBegin

\* case <-r.stopCh: return, and the deferred r.wg.Done()
SweeperExit ==
    /\ stop.sweeper = "running"
    /\ stop.stopCh = "closed"
    /\ sweep.pc = "idle"
    /\ stop' = [stop EXCEPT !.sweeper = "exited"]
    /\ UNCHANGED <<svars, evars, tvars>>

\* close(r.stopCh)
StopClose ==
    /\ stop.pc = "idle"
    /\ stop' = IF stop.stopCh = "closed"
               THEN [stop EXCEPT !.pc = "panicked"]
               ELSE [stop EXCEPT !.pc = "wait", !.stopCh = "closed"]
    /\ UNCHANGED <<svars, evars, tvars>>

\* (a variant that does not join the ticker goroutine)
StopWait_NoJoin ==
    /\ stop.pc = "wait"
    /\ stop' = [stop EXCEPT !.pc = "lock"]
    /\ UNCHANGED <<svars, evars, tvars>>

\* r.wg.Wait()
StopWait ==
    /\ stop.pc = "wait"
    /\ stop.sweeper = "exited"
    /\ stop' = [stop EXCEPT !.pc = "lock"]
    /\ UNCHANGED <<svars, evars, tvars>>

\* under r.mu: op.cancelFunc() for every op in the map; return
StopCancelAll ==
    /\ stop.pc = "lock"
    /\ sweep.pc = "idle"
    /\ ops' = [i \in DOMAIN ops |->
                  IF i \in operations THEN [ops[i] EXCEPT !.cancelled = TRUE]
                                      ELSE ops[i]]
    /\ stop' = [stop EXCEPT !.pc = "returned"]
    /\ UNCHANGED <<now, config, operations, worker, exec, canc, sweep, cont, svars, tvars>>

(***************************************************************************)
(* OperationExecutor.Continue.                                             *)
(***************************************************************************)
\* an empty Message
NoMessage == <<>>

NoContinueResult ==
    [Status |-> "none", OperationID |-> NoOperationID, OperationType |-> <<>>,
     Result |-> NoResult, Error |-> NoError, Message |-> NoMessage,
     err |-> NoError, via |-> "none"]

\* fmt.Sprintf("Operation still in progress (elapsed: %v). Continue
\* checking.", elapsed.Round(time.Second))
ProgressMessage(elapsed) ==
    <<"Operation still in progress (elapsed: ", elapsed, "). Continue checking.">>

\* the ContinueResult of an operation that is no longer running
TerminalContinueResult(i, via) ==
    [NoContinueResult EXCEPT !.Status = TerminalStatus(i),
                             !.OperationID = generateID(i),
                             !.OperationType = OpType(i),
                             !.Result = TerminalResult(i),
                             !.Error = ops[i].Error,
                             !.via = via]

ContinueReturn(k, res) ==
    cont' = [cont EXCEPT ![k].pc = "returned", ![k].deadline = 0, ![k].res = res]

\* (a variant that uses the record without looking it up in the registry)
ContinueCall_NoLookup(k, i, waitTime) ==
    /\ cont[k].pc \in {"idle", "returned"}
    /\ sweep.pc = "idle"
    /\ LET c == [cont[k] EXCEPT !.op = i, !.signalled = ops[i].closed,
                                !.cancelOk = (i \in canc.ok)]
       IN IF ops[i].Status # StatusRunning
          THEN cont' = [cont EXCEPT ![k] =
                   [c EXCEPT !.pc = "returned",
                             !.res = TerminalContinueResult(i, "status")]]
          ELSE cont' = [cont EXCEPT ![k] =
                   [c EXCEPT !.pc = "waiting", !.deadline = now + waitTime,
                             !.res = NoContinueResult]]
    /\ UNCHANGED <<now, config, operations, ops, worker, exec, canc, sweep, svars, xvars>>

\* registry.Get, the test of op.Status, and the return of a terminal state
\* or the entry into the select.  signalled / cancelOk note whether the
\* completion signal had fired, and whether a Cancel of the operation had
\* returned nil, when the call was made.
ContinueCall(k, i, waitTime) ==
    /\ cont[k].pc \in {"idle", "returned"}
    /\ sweep.pc = "idle"
    /\ LET c == [cont[k] EXCEPT !.op = i, !.signalled = ops[i].closed,
                                !.cancelOk = (i \in canc.ok)]
       IN IF i \notin operations
          THEN cont' = [cont EXCEPT ![k] =
                   [c EXCEPT !.pc = "returned",
                             !.res = [NoContinueResult EXCEPT !.err = ErrNotFound,
                                                              !.via = "get"]]]
          ELSE IF ops[i].Status # StatusRunning
          THEN cont' = [cont EXCEPT ![k] =
                   [c EXCEPT !.pc = "returned",
                             !.res = TerminalContinueResult(i, "status")]]
          ELSE cont' = [cont EXCEPT ![k] =
                   [c EXCEPT !.pc = "waiting", !.deadline = now + waitTime,
                             !.res = NoContinueResult]]
    /\ UNCHANGED <<now, config, operations, ops, worker, exec, canc, sweep, svars, xvars>>

\* case <-op.CompleteCh
ContinueComplete(k) ==
    /\ cont[k].pc = "waiting"
    /\ ops[cont[k].op].closed
    /\ ContinueReturn(k, TerminalContinueResult(cont[k].op, "complete"))
    /\ UNCHANGED <<now, config, operations, ops, worker, exec, canc, sweep, svars, xvars>>

\* case <-timeNow().After(waitTime)
ContinueTimeout(k) ==
    /\ cont[k].pc = "waiting"
    /\ now >= cont[k].deadline
    /\ ContinueReturn(k, [NoContinueResult EXCEPT
                             !.Status = StatusRunning,
                             !.OperationID = generateID(cont[k].op),
                             !.OperationType = OpType(cont[k].op),
                             !.Message = ProgressMessage(now - ops[cont[k].op].StartTime),
                             !.via = "timeout"])
    /\ UNCHANGED <<now, config, operations, ops, worker, exec, canc, sweep, svars, xvars>>

\* (a variant that invokes the operation's cancel handle as well)
ContinueCtxDone_Cancels(k) ==
    /\ cont[k].pc = "waiting"
    /\ ContinueReturn(k, [NoContinueResult EXCEPT !.err = "context canceled",
                                                  !.via = "ctx"])
    /\ ops' = [ops EXCEPT ![cont[k].op].cancelled = TRUE]
    /\ UNCHANGED <<now, config, operations, worker, exec, canc, sweep, svars, xvars>>

\* case <-ctx.Done(): return nil, ctx.Err()
ContinueCtxDone(k) ==
    /\ cont[k].pc = "waiting"
    /\ ContinueReturn(k, [NoContinueResult EXCEPT !.err = "context canceled",
                                                  !.via = "ctx"])
    /\ UNCHANGED <<now, config, operations, ops, worker, exec, canc, sweep, svars, xvars>>

(***************************************************************************)
(* The clock.  It does not advance while a select has a ready case, nor    *)
(* while a goroutine is between two statements of straight-line code (the  *)
(* worker after the operation function has returned, Cancel, a pass of the *)
(* sweeper): those take no time at the scale of the timeouts, and they     *)
(* interleave in every order within a tick.                                *)
(***************************************************************************)
SelectReady ==
    \/ \E i \in DOMAIN exec : /\ exec[i].pc = "waiting"
                      /\ (ops[i].closed \/ now >= exec[i].deadline)
    \/ \E k \in DOMAIN cont : /\ cont[k].pc = "waiting"
                          /\ (ops[cont[k].op].closed \/ now >= cont[k].deadline)

MidStatement ==
    \/ \E i \in DOMAIN worker : worker[i].pc \in {"status", "outcome", "defers"}
    \/ canc.pc # "idle"
    \/ sweep.pc # "idle"

Tick ==
    /\ now < MaxTime
    /\ ~SelectReady
    /\ ~MidStatement
    /\ now' = now + 1
    /\ UNCHANGED <<config, operations, ops, worker, exec, canc, sweep, cont, svars, xvars>>

NextExec ==
    \/ Tick
    \/ \E i \in Ops : ExecuteStart(i)
    \/ \E i \in Ops : WorkerReturn(i)
    \/ \E i \in Ops : WorkerStatus(i)
    \/ \E i \in Ops : WorkerOutcome(i)
    \/ \E i \in Ops : WorkerDefers(i)
    \/ \E i \in Ops : ExecuteComplete(i)
    \/ \E i \in Ops : ExecuteTimeout(i)
    \/ \E i \in Ops : ExecuteCtxDone(i)
    \/ \E i \in Ops : CancelCall(i)
    \/ CancelStatus
    \/ CancelError
    \/ CancelEndTime
    \/ SweepBegin
    \/ \E i \in Ops : SweepVisit(i)
    \/ SweepStatus
    \/ SweepError
    \/ SweepEndTime
    \/ SweepEnd
    \/ \E k \in Waiters, i \in Ops, w \in WaitVals : ContinueCall(k, i, w)
    \/ \E k \in Waiters : ContinueComplete(k)
    \/ \E k \in Waiters : ContinueTimeout(k)
    \/ \E k \in Waiters : ContinueCtxDone(k)

(***************************************************************************)
(* The specifications: the dispatch core with an unused executor, and the  *)
(* executor with an unused server.                                         *)
(***************************************************************************)
NextServer ==
    \/ RunReceive
    \/ RunReturn
    \/ \E t \in Tasks : HandleRequest(t)
    \/ \E t \in Tasks : HandlerReturn(t)

\* a server whose executor is constructed and never used
InitDispatch ==
    /\ InitServer
    /\ InitExec
    /\ config.MaxLifetime = 1

SpecServer == InitDispatch /\ [][NextServer]_vars

\* handlers return and goroutines are scheduled
FairSpecServer ==
    /\ SpecServer
    /\ \A t \in Tasks : WF_vars(HandleRequest(t)) /\ WF_vars(HandlerReturn(t))

\* an executor beside a server with no handler that receives no request
InitAsync ==
    /\ InitExec
    /\ InitServer
    /\ registry = NewHandlerRegistry

SpecExec == InitAsync /\ [][NextExec]_vars

(***************************************************************************)
(* The executor without callers of Continue (Continue writes neither the   *)
(* records nor the registry), and with its scheduling: the clock keeps     *)
(* advancing, the sweeper's ticker keeps starting passes, and every        *)
(* goroutine that can take a step (a ready select, the statements after    *)
(* the operation function has returned, Cancel, a pass of the sweeper)     *)
(* takes it.  Nothing makes the operation function return or a caller      *)
(* call.                                                                   *)
(***************************************************************************)
NextSweep ==
    \/ Tick
    \/ \E i \in Ops : ExecuteStart(i)
    \/ \E i \in Ops : WorkerReturn(i)
    \/ \E i \in Ops : WorkerStatus(i)
    \/ \E i \in Ops : WorkerOutcome(i)
    \/ \E i \in Ops : WorkerDefers(i)
    \/ \E i \in Ops : ExecuteComplete(i)
    \/ \E i \in Ops : ExecuteTimeout(i)
    \/ \E i \in Ops : ExecuteCtxDone(i)
    \/ \E i \in Ops : CancelCall(i)
    \/ CancelStatus
    \/ CancelError
    \/ CancelEndTime
    \/ SweepBegin
    \/ \E i \in Ops : SweepVisit(i)
    \/ SweepStatus
    \/ SweepError
    \/ SweepEndTime
    \/ SweepEnd

SpecSweep == InitAsync /\ [][NextSweep]_vars

FairSpecSweep ==
    /\ SpecSweep
    /\ SF_vars(Tick)
    /\ WF_vars(SweepBegin) /\ WF_vars(SweepStatus) /\ WF_vars(SweepError)
    /\ WF_vars(SweepEndTime) /\ WF_vars(SweepEnd)
    /\ WF_vars(CancelStatus) /\ WF_vars(CancelError) /\ WF_vars(CancelEndTime)
    /\ \A i \in Ops :
          /\ WF_vars(SweepVisit(i))
          /\ WF_vars(WorkerStatus(i)) /\ WF_vars(WorkerOutcome(i))
          /\ WF_vars(WorkerDefers(i))
          /\ WF_vars(ExecuteComplete(i) \/ ExecuteTimeout(i))

(***************************************************************************)
(* The executor with one call of Stop, without callers of Continue and of   *)
(* Cleanup: every pass of cleanupExpired is the ticker goroutine's.         *)
(***************************************************************************)
NextStop ==
    \/ Tick
    \/ \E i \in Ops : ExecuteStart(i)
    \/ \E i \in Ops : WorkerReturn(i)
    \/ \E i \in Ops : WorkerStatus(i)
    \/ \E i \in Ops : WorkerOutcome(i)
    \/ \E i \in Ops : WorkerDefers(i)
    \/ \E i \in Ops : ExecuteComplete(i)
    \/ \E i \in Ops : ExecuteTimeout(i)
    \/ \E i \in Ops : ExecuteCtxDone(i)
    \/ \E i \in Ops : CancelCall(i)
    \/ CancelStatus
    \/ CancelError
    \/ CancelEndTime
    \/ TickerFires
    \/ \E i \in Ops : SweepVisit(i)
    \/ SweepStatus
    \/ SweepError
    \/ SweepEndTime
    \/ SweepEnd
    \/ SweeperExit
    \/ StopClose
    \/ StopWait
    \/ StopCancelAll

SpecStop == InitAsync /\ [][NextStop]_vars

\* a call of Stop after a call of Stop has returned: close(r.stopCh) panics
\* on a closed channel (the caller may recover from the panic)
StopAgain ==
    /\ stop.pc = "returned"
    /\ stop' = IF stop.stopCh = "closed"
               THEN [stop EXCEPT !.pc = "panicked"]
               ELSE [stop EXCEPT !.pc = "wait", !.stopCh = "closed"]
    /\ UNCHANGED <<svars, evars, tvars>>

NextStopTwice ==
    \/ NextStop
    \/ StopAgain

SpecStopTwice == InitAsync /\ [][NextStopTwice]_vars

(***************************************************************************)
(* Several callers of Continue at once: one more caller than in SpecExec,  *)
(* each calling Continue once, beside Execute, the worker and Cancel.      *)
(***************************************************************************)
ManyWaiters == 1..(MaxWaiters + 1)

InitWaiters ==
    /\ InitExecutor(Ops, ManyWaiters)
    /\ config.MaxLifetime = 2
    /\ InitServer
    /\ registry = NewHandlerRegistry

ContinueOnce(k, i, waitTime) == cont[k].pc = "idle" /\ ContinueCall(k, i, waitTime)

NextWaiters ==
    \/ Tick
    \/ \E i \in Ops : ExecuteStart(i)
    \/ \E i \in Ops : WorkerReturn(i)
    \/ \E i \in Ops : WorkerStatus(i)
    \/ \E i \in Ops : WorkerOutcome(i)
    \/ \E i \in Ops : WorkerDefers(i)
    \/ \E i \in Ops : ExecuteComplete(i)
    \/ \E i \in Ops : ExecuteTimeout(i)
    \/ \E i \in Ops : ExecuteCtxDone(i)
    \/ \E i \in Ops : CancelCall(i)
    \/ CancelStatus
    \/ CancelError
    \/ CancelEndTime
    \/ \E k \in ManyWaiters, i \in Ops, w \in WaitVals : ContinueOnce(k, i, w)
    \/ \E k \in ManyWaiters : ContinueComplete(k)
    \/ \E k \in ManyWaiters : ContinueTimeout(k)
    \/ \E k \in ManyWaiters : ContinueCtxDone(k)

SpecWaiters == InitWaiters /\ [][NextWaiters]_vars

(***************************************************************************)
(* generateID as the code computes it, and Execute with ids drawn from a   *)
(* random source that may repeat or fail.  A string is a sequence of       *)
(* characters.                                                             *)
(***************************************************************************)
HexDigits ==
    <<"0", "1", "2", "3", "4", "5", "6", "7", "8", "9", "a", "b", "c", "d", "e", "f">>

\* hex.EncodeToString: two characters for every byte
EncodeToString(bytes) ==
    [n \in 1..(2 * Len(bytes)) |->
        IF n % 2 = 1 THEN HexDigits[(bytes[(n + 1) \div 2] \div 16) + 1]
                     ELSE HexDigits[(bytes[n \div 2] % 16) + 1]]

\* the run-time panic of a slice expression out of range
Panic == <<"panic: slice bounds out of range">>

\* s[:n]
Prefix(str, n) == IF n > Len(str) THEN Panic ELSE SubSeq(str, 1, n)

\* what rand.Read(bytes) may do with the 4-byte buffer: fill it, or fail
RandomReads ==
    { [ok |-> TRUE, bytes |-> <<0, 0, 0, 0>>],
      [ok |-> TRUE, bytes |-> <<222, 173, 190, 239>>],
      [ok |-> FALSE, bytes |-> <<0, 0, 0, 0>>] }

\* generateID with the outcome of rand.Read and the value of timeNow().Unix()
generateIDFrom(read, unix) ==
    IF read.ok THEN EncodeToString(read.bytes)
               ELSE Prefix(EncodeToString(<<unix % 256>>), 8)

\* registry.Add: r.operations[op.ID] = op replaces a record with the same id
Add(i, id) == { j \in operations : ops[j].ID # id } \cup {i}

\* Execute up to its select, as ExecuteStart, with such an id; a panic in
\* generateID ends the call before anything is registered
ExecuteStartRandom(i) ==
    /\ exec[i].pc = "idle"
    /\ \A j \in DOMAIN exec : j < i => exec[j].pc # "idle"
    /\ sweep.pc = "idle"
    /\ \E read \in RandomReads, t \in TimeoutVals :
          LET id == generateIDFrom(read, now)
              timeout == IF t = 0 THEN config.DefaultTimeout ELSE t
          IN IF id = Panic
             THEN /\ exec' = [exec EXCEPT ![i].pc = "panicked"]
                  /\ UNCHANGED <<ops, operations, worker>>
             ELSE /\ exec' = [exec EXCEPT ![i] = [pc |-> "waiting",
                                                  deadline |-> now + timeout,
                                                  res |-> NoExecuteResult]]
                  /\ ops' = [ops EXCEPT ![i] = [NoOp EXCEPT !.ID = id,
                                                            !.Status = StatusRunning,
                                                            !.StartTime = now]]
                  /\ operations' = Add(i, id)
                  /\ worker' = [worker EXCEPT ![i].pc = "running"]
    /\ UNCHANGED <<now, config, canc, sweep, cont, svars, xvars>>

ManyOps == 1..(MaxOps + 1)

InitIds ==
    /\ InitExecutor(ManyOps, Waiters)
    /\ config.MaxLifetime = 2
    /\ InitServer
    /\ registry = NewHandlerRegistry

NextIds ==
    \/ Tick
    \/ \E i \in ManyOps : ExecuteStartRandom(i)
    \/ \E i \in ManyOps : WorkerReturn(i)
    \/ \E i \in ManyOps : WorkerStatus(i)
    \/ \E i \in ManyOps : WorkerOutcome(i)
    \/ \E i \in ManyOps : WorkerDefers(i)
    \/ \E i \in ManyOps : ExecuteComplete(i)
    \/ \E i \in ManyOps : ExecuteTimeout(i)

SpecIds == InitIds /\ [][NextIds]_vars

\* a panic in the read loop's goroutine ends the program, once the deferred
\* Stop has run: no goroutine takes a step after that
Alive == readLoop.pc # "crashed"

(***************************************************************************)
(* StdioTransport.Stop, called by c.  It holds t.mu from the first step to *)
(* the last; the channels are closed one after the other.                  *)
(***************************************************************************)
\* the caller is at its call of Stop
AtStop(c) ==
    CASE c = "readLoop" -> readLoop.pc = "deferStop" /\ stops[c].pc = "idle"
      [] c = "Run" -> runPc = "deferStop" /\ stops[c].pc = "idle"
      [] OTHER -> stops[c].pc \in {"idle", "returned"} /\ stops[c].n < MaxStops

\* (a variant without the test of isClosed)
StopBegin_NoTest(c) ==
    /\ Alive
    /\ AtStop(c)
    /\ transport.mu = "free"
    /\ IF transport.done = "closed"
       THEN /\ stops' = [stops EXCEPT ![c] = [pc |-> "panicked", n |-> @.n + 1]]
            /\ transport' = [transport EXCEPT !.isClosed = TRUE]
       ELSE /\ stops' = [stops EXCEPT ![c] = [pc |-> "closeRequests", n |-> @.n + 1]]
            /\ transport' = [transport EXCEPT !.mu = c, !.isClosed = TRUE,
                                              !.done = "closed"]
    /\ UNCHANGED <<svars, evars, stop, decoder, readLoop, sender, received>>

\* t.mu.Lock(); if !t.isClosed { t.isClosed = true; close(t.done) ... }
\* else the deferred Unlock and return nil
StopBegin(c) ==
    /\ Alive
    /\ AtStop(c)
    /\ transport.mu = "free"
    /\ IF transport.isClosed
       THEN /\ stops' = [stops EXCEPT ![c] = [pc |-> "returned", n |-> @.n + 1]]
            /\ UNCHANGED transport
       ELSE /\ stops' = [stops EXCEPT ![c] = [pc |-> "closeRequests", n |-> @.n + 1]]
            /\ transport' = [transport EXCEPT !.mu = c, !.isClosed = TRUE,
                                              !.done = "closed"]
    /\ UNCHANGED <<svars, evars, stop, decoder, readLoop, sender, received>>

\* close(t.requests)
StopCloseRequests(c) ==
    /\ Alive
    /\ stops[c].pc = "closeRequests"
    /\ IF transport.requests = "closed"
       THEN /\ stops' = [stops EXCEPT ![c].pc = "panicked"]
            /\ transport' = [transport EXCEPT !.mu = "free"]
       ELSE /\ stops' = [stops EXCEPT ![c].pc = "closeErrors"]
            /\ transport' = [transport EXCEPT !.requests = "closed"]
    /\ UNCHANGED <<svars, evars, stop, decoder, readLoop, sender, received>>

\* close(t.errors); the deferred Unlock; return nil
StopCloseErrors(c) ==
    /\ Alive
    /\ stops[c].pc = "closeErrors"
    /\ IF transport.errors = "closed"
       THEN stops' = [stops EXCEPT ![c].pc = "panicked"]
       ELSE stops' = [stops EXCEPT ![c].pc = "returned"]
    /\ transport' = [transport EXCEPT !.errors = "closed", !.mu = "free"]
    /\ UNCHANGED <<svars, evars, stop, decoder, readLoop, sender, received>>

(***************************************************************************)
(* StdioTransport.Send, called by the owner.                               *)
(***************************************************************************)
\* a call of Stop has returned
StopReturned == \E c \in StopCallers : stops[c].pc = "returned"

\* (a variant without the test of isClosed)
SendCall_NoTest ==
    /\ Alive
    /\ sender.pc \in {"idle", "returned"}
    /\ sender.n < MaxSends
    /\ transport.mu = "free"
    /\ sender' = [sender EXCEPT !.pc = "encode", !.n = @ + 1,
                                !.res = NoError, !.late = StopReturned]
    /\ UNCHANGED <<svars, evars, stop, transport, decoder, readLoop, stops,
                   received>>

\* t.mu.RLock(); the test of t.isClosed; t.mu.RUnlock()
SendCall ==
    /\ Alive
    /\ sender.pc \in {"idle", "returned"}
    /\ sender.n < MaxSends
    /\ transport.mu = "free"
    /\ sender' = IF transport.isClosed
                 THEN [sender EXCEPT !.pc = "returned", !.n = @ + 1,
                                     !.res = ErrTransportClosed,
                                     !.late = StopReturned]
                 ELSE [sender EXCEPT !.pc = "encode", !.n = @ + 1,
                                     !.res = NoError, !.late = StopReturned]
    /\ UNCHANGED <<svars, evars, stop, transport, decoder, readLoop, stops,
                   received>>

\* return t.encoder.Encode(response): the response is written, or the write
\* fails
SendEncode ==
    /\ Alive
    /\ sender.pc = "encode"
    /\ \E ok \in BOOLEAN :
          /\ sender' = [sender EXCEPT !.pc = "returned",
                                      !.res = IF ok THEN NoError ELSE ErrWrite]
          /\ transport' = [transport EXCEPT !.written = IF ok THEN @ + 1 ELSE @]
    /\ UNCHANGED <<svars, evars, stop, decoder, readLoop, stops, received>>

(***************************************************************************)
(* StdioTransport.readLoop.                                                *)
(***************************************************************************)
\* ctx.Done() or t.done is ready
LoopDone == readLoop.ctxDone \/ transport.done = "closed"

\* the owner cancels the context given to Start
CtxCancel ==
    /\ Alive
    /\ ~readLoop.ctxDone
    /\ readLoop' = [readLoop EXCEPT !.ctxDone = TRUE]
    /\ UNCHANGED <<svars, evars, stop, transport, decoder, stops, sender, received>>

\* the select at the top of the loop: return, or the default case
ReadLoopSelect ==
    /\ Alive
    /\ readLoop.pc = "select"
    /\ readLoop' = [readLoop EXCEPT !.pc = IF LoopDone THEN "deferStop" ELSE "decode"]
    /\ UNCHANGED <<svars, evars, stop, transport, decoder, stops, sender, received>>

\* err := t.decoder.Decode(&request); if err == io.EOF { return }
ReadLoopDecode ==
    /\ Alive
    /\ readLoop.pc = "decode"
    /\ ~DecodeBlocks(decoder)
    /\ LET d == Decode(decoder)
       IN /\ decoder' = d.dec
          /\ readLoop' = [readLoop EXCEPT
                             !.pc = IF d.err = ErrEOF THEN "deferStop" ELSE "isClosed",
                             !.item = d.item, !.err = d.err]
    /\ UNCHANGED <<svars, evars, stop, transport, stops, sender, received>>

\* (a variant without the test of request.JSONRPC)
ReadLoopIsClosed_NoVersionTest ==
    /\ Alive
    /\ readLoop.pc = "isClosed"
    /\ transport.mu = "free"
    /\ IF transport.isClosed
       THEN readLoop' = [readLoop EXCEPT !.pc = "deferStop"]
       ELSE IF readLoop.err # NoError
       THEN readLoop' = [readLoop EXCEPT !.pc = "emit", !.err = DecodeError(@)]
       ELSE readLoop' = [readLoop EXCEPT !.pc = "publish"]
    /\ UNCHANGED <<svars, evars, stop, transport, decoder, stops, sender, received>>

\* isClosed := t.isClosed under t.mu.RLock(), and the tests that follow it
ReadLoopIsClosed ==
    /\ Alive
    /\ readLoop.pc = "isClosed"
    /\ transport.mu = "free"
    /\ IF transport.isClosed
       THEN readLoop' = [readLoop EXCEPT !.pc = "deferStop"]
       ELSE IF readLoop.err # NoError
       THEN readLoop' = [readLoop EXCEPT !.pc = "emit", !.err = DecodeError(@)]
       ELSE IF readLoop.item.jsonrpc # "2.0"
       THEN readLoop' = [readLoop EXCEPT !.pc = "emit",
                                         !.err = VersionError(readLoop.item.jsonrpc)]
       ELSE readLoop' = [readLoop EXCEPT !.pc = "publish"]
    /\ UNCHANGED <<svars, evars, stop, transport, decoder, stops, sender, received>>

\* Run records the error it received
Record(err) == IF Len(received) < MaxErrs THEN Append(received, err) ELSE received

\* (a variant in which Run returns when it receives an error)
ReadLoopEmit_RunReturns ==
    /\ Alive
    /\ readLoop.pc = "emit"
    /\ transport.errors = "open"
    /\ runPc = "select"
    /\ received' = Record(readLoop.err)
    /\ runPc' = "deferStop"
    /\ readLoop' = [readLoop EXCEPT !.pc = "select", !.err = NoError, !.item = NoItem]
    /\ UNCHANGED <<registry, calls, requestCount, stopped, tasks, sendCalls, evars, stop,
                   transport, decoder, stops, sender>>

\* select { case t.errors <- err: ... }: Run, parked in its select, takes
\* the error
ReadLoopEmit ==
    /\ Alive
    /\ readLoop.pc = "emit"
    /\ transport.errors = "open"
    /\ runPc = "select"
    /\ received' = Record(readLoop.err)
    /\ runPc' = "loop"
    /\ readLoop' = [readLoop EXCEPT !.pc = "select", !.err = NoError, !.item = NoItem]
    /\ UNCHANGED <<registry, calls, requestCount, stopped, tasks, sendCalls, evars, stop,
                   transport, decoder, stops, sender>>

\* ... default: log.Printf(...) }; continue
ReadLoopEmitDefault ==
    /\ Alive
    /\ readLoop.pc = "emit"
    /\ transport.errors = "open"
    /\ runPc # "select"
    /\ ~LoopDone
    /\ readLoop' = [readLoop EXCEPT !.pc = "select", !.err = NoError, !.item = NoItem]
    /\ UNCHANGED <<svars, evars, stop, transport, decoder, stops, sender, received>>

\* select { case t.requests <- &request: ... }: Run, parked in its select,
\* takes the request, counts it and starts handleRequest for it
ReadLoopPublish ==
    /\ Alive
    /\ readLoop.pc \in {"publish", "publishWait"}
    /\ transport.requests = "open"
    /\ runPc = "select"
    /\ requestCount < MaxReqs
    /\ LET n == requestCount + 1
       IN /\ requestCount' = n
          /\ tasks' = [tasks EXCEPT ![n] =
                          [pc |-> "start",
                           req |-> [id |-> <<n>>, method |-> readLoop.item.method,
                                    params |-> "object"],
                           result |-> NilResult, err |-> NoError]]
    /\ runPc' = "loop"
    /\ readLoop' = [readLoop EXCEPT !.pc = "select", !.item = NoItem]
    /\ UNCHANGED <<registry, calls, stopped, sendCalls, evars, stop, transport, decoder,
                   stops, sender, received>>

\* no case of the select is ready: the goroutine parks
ReadLoopPark ==
    /\ Alive
    /\ readLoop.pc = "publish"
    /\ transport.requests = "open"
    /\ runPc # "select"
    /\ ~LoopDone
    /\ readLoop' = [readLoop EXCEPT !.pc = "publishWait"]
    /\ UNCHANGED <<svars, evars, stop, transport, decoder, stops, sender, received>>

\* case <-ctx.Done(): return / case <-t.done: return, in any of the three
\* selects after the decode
ReadLoopDone ==
    /\ Alive
    /\ readLoop.pc \in {"emit", "publish", "publishWait"}
    /\ LoopDone
    /\ readLoop' = [readLoop EXCEPT !.pc = "deferStop"]
    /\ UNCHANGED <<svars, evars, stop, transport, decoder, stops, sender, received>>

\* the send case is taken on a channel that Stop has closed: the goroutine
\* panics, and its deferred Stop runs
ReadLoopSendOnClosed ==
    /\ Alive
    /\ \/ readLoop.pc = "emit" /\ transport.errors = "closed"
       \/ readLoop.pc = "publish" /\ transport.requests = "closed"
    /\ readLoop' = [readLoop EXCEPT !.pc = "deferStop", !.panicking = TRUE]
    /\ UNCHANGED <<svars, evars, stop, transport, decoder, stops, sender, received>>

\* the deferred Stop has returned: the goroutine ends, or the panic ends
\* the program
ReadLoopExit ==
    /\ Alive
    /\ readLoop.pc = "deferStop"
    /\ stops["readLoop"].pc = "returned"
    /\ readLoop' = [readLoop EXCEPT !.pc = IF readLoop.panicking THEN "crashed"
                                                                ELSE "exited"]
    /\ UNCHANGED <<svars, evars, stop, transport, decoder, stops, sender, received>>

(***************************************************************************)
(* Server.Run on the transport's streams.  runPc is "loop" at the top of   *)
(* the for loop, "select" while Run is parked in its select.               *)
(***************************************************************************)
\* no case is ready: Run parks in the select
RunPark ==
    /\ Alive
    /\ runPc = "loop"
    /\ transport.requests = "open" /\ transport.errors = "open"
    /\ readLoop.pc # "publishWait"
    /\ runPc' = "select"
    /\ UNCHANGED <<registry, calls, requestCount, stopped, tasks, sendCalls, evars, xvars>>

\* case req := <-s.transport.Receive() with the read loop parked in its
\* send: Run takes the request as in ReadLoopPublish
RunTake ==
    /\ Alive
    /\ runPc = "loop"
    /\ readLoop.pc = "publishWait"
    /\ transport.requests = "open"
    /\ requestCount < MaxReqs
    /\ LET n == requestCount + 1
       IN /\ requestCount' = n
          /\ tasks' = [tasks EXCEPT ![n] =
                          [pc |-> "start",
                           req |-> [id |-> <<n>>, method |-> readLoop.item.method,
                                    params |-> "object"],
                           result |-> NilResult, err |-> NoError]]
    /\ readLoop' = [readLoop EXCEPT !.pc = "select", !.item = NoItem]
    /\ UNCHANGED <<registry, calls, runPc, stopped, sendCalls, evars, stop, transport,
                   decoder, stops, sender, received>>

\* case err := <-s.transport.Errors() on the closed channel: err is nil;
\* log and continue
RunErrorsClosed ==
    /\ Alive
    /\ runPc = "loop"
    /\ transport.errors = "closed"
    /\ received' = Record("<nil>")
    /\ UNCHANGED <<svars, evars, stop, transport, decoder, readLoop, stops, sender>>

\* (a variant that takes the closed request stream for a request)
RunRequestsClosed_Continue ==
    /\ Alive
    /\ runPc \in {"loop", "select"}
    /\ transport.requests = "closed"
    /\ runPc' = "loop"
    /\ UNCHANGED <<registry, calls, requestCount, stopped, tasks, sendCalls, evars, xvars>>

\* case req := <-s.transport.Receive() on the closed channel: req == nil,
\* return nil; parked, Run is woken by the close of requests
RunRequestsClosed ==
    /\ Alive
    /\ runPc \in {"loop", "select"}
    /\ transport.requests = "closed"
    /\ runPc' = "deferStop"
    /\ UNCHANGED <<registry, calls, requestCount, stopped, tasks, sendCalls, evars, xvars>>

\* the deferred s.transport.Stop(ctx) has returned, and Run returns
RunReturned ==
    /\ Alive
    /\ runPc = "deferStop"
    /\ stops["Run"].pc = "returned"
    /\ runPc' = "returned"
    /\ stopped' = TRUE
    /\ UNCHANGED <<registry, calls, requestCount, tasks, sendCalls, evars, xvars>>

(***************************************************************************)
(* The transport with Server.Run as the receiver of its streams and an     *)
(* owner that calls Stop and Send and cancels the context.                 *)
(***************************************************************************)
NextTransport ==
    \/ \E c \in StopCallers : StopBegin(c)
    \/ \E c \in StopCallers : StopCloseRequests(c)
    \/ \E c \in StopCallers : StopCloseErrors(c)
    \/ SendCall
    \/ SendEncode
    \/ CtxCancel
    \/ ReadLoopSelect
    \/ ReadLoopDecode
    \/ ReadLoopIsClosed
    \/ ReadLoopEmit
    \/ ReadLoopEmitDefault
    \/ ReadLoopPublish
    \/ ReadLoopPark
    \/ ReadLoopDone
    \/ ReadLoopSendOnClosed
    \/ ReadLoopExit
    \/ RunPark
    \/ RunTake
    \/ RunErrorsClosed
    \/ RunRequestsClosed
    \/ RunReturned

\* a server with a tool handler, on a transport that reads one of the
\* inputs; its executor is not used
InitTransport ==
    /\ registry = RegistryWith({"tools"})
    /\ calls = <<>>
    /\ runPc = "loop"
    /\ requestCount = 0
    /\ stopped = FALSE
    /\ tasks = [t \in Tasks |-> [pc |-> "none", req |-> NoReq,
                                  result |-> NilResult, err |-> NoError]]
    /\ sendCalls = [t \in Tasks |-> <<>>]
    /\ NewStdioTransport(Inputs, InputEnds)
    /\ InitExec
    /\ config.MaxLifetime = 1

SpecTransport == InitTransport /\ [][NextTransport]_vars

(***************************************************************************)
(* Server.Run with its transport and the handleRequest goroutines it       *)
(* starts; the owner of the transport may stop it.                         *)
(***************************************************************************)
NextRun ==
    \/ \E c \in StopCallers : StopBegin(c)
    \/ \E c \in StopCallers : StopCloseRequests(c)
    \/ \E c \in StopCallers : StopCloseErrors(c)
    \/ ReadLoopSelect
    \/ ReadLoopDecode
    \/ ReadLoopIsClosed
    \/ ReadLoopEmit
    \/ ReadLoopEmitDefault
    \/ ReadLoopPublish
    \/ ReadLoopPark
    \/ ReadLoopDone
    \/ ReadLoopSendOnClosed
    \/ ReadLoopExit
    \/ RunPark
    \/ RunTake
    \/ RunErrorsClosed
    \/ RunRequestsClosed
    \/ RunReturned
    \/ \E t \in Tasks : HandleRequest(t)
    \/ \E t \in Tasks : HandlerReturn(t)

SpecRun == InitTransport /\ [][NextRun]_vars

\* the scheduling of the goroutines: the read loop, Run and every call of
\* Stop that has begun take their next step; a select with a ready case
\* takes one, and Run's select, which Go resolves by a uniform random
\* choice among the ready cases, does not leave the closed request stream
\* aside forever.  Nothing makes the owner call Stop or Send or cancel the
\* context, nor the client write.
FairSpecTransport ==
    /\ SpecTransport
    /\ WF_vars(ReadLoopSelect) /\ WF_vars(ReadLoopDecode)
    /\ WF_vars(ReadLoopIsClosed)
    /\ WF_vars(ReadLoopEmit \/ ReadLoopEmitDefault \/ ReadLoopDone
                  \/ ReadLoopSendOnClosed \/ ReadLoopPublish \/ ReadLoopPark)
    /\ WF_vars(ReadLoopExit)
    /\ WF_vars(RunPark) /\ WF_vars(RunTake)
    /\ WF_vars(RunRequestsClosed) /\ WF_vars(RunReturned)
    /\ WF_vars(StopBegin("readLoop")) /\ WF_vars(StopBegin("Run"))
    /\ \A c \in StopCallers :
          WF_vars(StopCloseRequests(c)) /\ WF_vars(StopCloseErrors(c))

(***************************************************************************)
(* pkg/handler: the HandlerRegistry, before a server is built on it.  Its  *)
(* methods take no lock; calls is the record of the calls made and of what *)
(* they returned.                                                          *)
(***************************************************************************)
\* number of calls made on the registry
MaxCalls == 3

\* (a variant that keeps the handler registered first)
RegisterToolHandler_KeepsFirst(h) ==
    registry' = [registry EXCEPT
                    !["tools"] = IF @ = NilHandler THEN h ELSE @]

RegisterToolHandler(h) == registry' = [registry EXCEPT !["tools"] = h]

RegisterResourceHandler(h) == registry' = [registry EXCEPT !["resources"] = h]

RegisterPromptHandler(h) == registry' = [registry EXCEPT !["prompts"] = h]

GetToolHandler == registry["tools"]
GetResourceHandler == registry["resources"]
GetPromptHandler == registry["prompts"]

Called(op, category, handler, present) ==
    /\ Len(calls) < MaxCalls
    /\ calls' = Append(calls, [op |-> op, category |-> category,
                               handler |-> handler, present |-> present])

RegisterCall(category, h) ==
    /\ CASE category = "tools" -> RegisterToolHandler(h)
         [] category = "resources" -> RegisterResourceHandler(h)
         [] category = "prompts" -> RegisterPromptHandler(h)
    /\ Called("Register", category, h, FALSE)
    /\ UNCHANGED <<runPc, requestCount, stopped, tasks, sendCalls, evars, xvars>>

GetCall(category) ==
    /\ LET h == CASE category = "tools" -> GetToolHandler
                  [] category = "resources" -> GetResourceHandler
                  [] category = "prompts" -> GetPromptHandler
       IN Called("Get", category, h, FALSE)
    /\ UNCHANGED <<registry, runPc, requestCount, stopped, tasks, sendCalls,
                   evars, xvars>>

HasCall(category) ==
    /\ Called("Has", category, NilHandler, HasHandler(category))
    /\ UNCHANGED <<registry, runPc, requestCount, stopped, tasks, sendCalls,
                   evars, xvars>>

NextRegistry ==
    \/ \E c \in Categories, h \in Handlers : RegisterCall(c, h)
    \/ \E c \in Categories : GetCall(c)
    \/ \E c \in Categories : HasCall(c)

\* a new registry, beside an executor that is never used
InitRegistry ==
    /\ InitExec
    /\ InitServer
    /\ registry = NewHandlerRegistry
    /\ config.MaxLifetime = 1

SpecRegistry == InitRegistry /\ [][NextRegistry]_vars

(***************************************************************************)
(* Claims about the dispatch core.                                         *)
(***************************************************************************)
Spawned == { t \in Tasks : tasks[t].pc # "none" }

NotificationMethods == { MethodInitialized, NotificationInitialized }

\* a notification: no id, or a method of the notification set
IsNotification(req) == req.id = NoId \/ req.method \in NotificationMethods

\* C1: for every request with an id and a method other than initialized /
\* notifications/initialized, the server calls transport.Send at most once
\* while the request is handled, exactly once by the time handleRequest has
\* returned, and every Response it passes carries the request's id; this
\* holds with several requests in flight and in every order of completion.
C1_ExactlyOneResponse ==
    \A t \in Spawned :
        LET req == tasks[t].req
        IN (req.id # NoId /\ req.method \notin NotificationMethods) =>
              /\ Len(sendCalls[t]) <= 1
              /\ \A i \in 1..Len(sendCalls[t]) : sendCalls[t][i].id = req.id
              /\ (tasks[t].pc = "done" => Len(sendCalls[t]) = 1)

\* two requests with ids in flight, the later one answered first
C1_Witness ==
    /\ tasks[1].pc = "inHandler" /\ tasks[1].req.id = <<1>>
    /\ tasks[2].pc = "done" /\ tasks[2].req.id = <<2>>
    /\ tasks[2].req.method = MethodOther
    /\ Len(sendCalls[2]) = 1 /\ sendCalls[2][1].id = <<2>>

\* C2: for every notification (a request with no id, of any method, or a
\* request whose method is initialized / notifications/initialized) the
\* server never calls transport.Send.
C2_NotificationsGetNoResponse ==
    \A t \in Spawned :
        IsNotification(tasks[t].req) => sendCalls[t] = <<>>

(***************************************************************************)
(* Claims about the executor.                                              *)
(***************************************************************************)
\* the step in which Execute for operation i returns
ExecuteReturns(i) == exec[i].pc = "waiting" /\ exec'[i].pc = "returned"

\* the operation function of i has returned
Returned(i) == worker[i].pc \notin {"idle", "running"}

\* C3: when Execute returns while the patience window has not elapsed, the
\* caller's context is not cancelled and the operation function has returned,
\* it returns completed with the function's value if the function returned
\* a nil error, failed with the function's error text if it returned an
\* error, and an empty operationId in both cases.
C3_InlineCompletion ==
    [][\A i \in Ops :
          (/\ ExecuteReturns(i)
           /\ Returned(i)
           /\ now < exec[i].deadline
           /\ exec'[i].res.via # "ctx")
          => /\ exec'[i].res.OperationID = NoOperationID
             /\ IF worker[i].err = NoError
                THEN /\ exec'[i].res.Status = StatusCompleted
                     /\ exec'[i].res.Result = worker[i].value
                ELSE /\ exec'[i].res.Status = StatusFailed
                     /\ exec'[i].res.Error = worker[i].err]_vars

\* C4: when Execute returns after the patience window has elapsed, with the
\* operation function not yet returned and the caller's context not
\* cancelled, it returns running with the operation's non-empty id, its type
\* and no result, and at that moment the id is in the registry, the worker
\* is running and the operation has not been cancelled (by a Cancel or a
\* lifetime enforcement that set its endTime before this tick).
C4_TimeoutLeavesOperationRunning ==
    [][\A i \in Ops :
          (/\ ExecuteReturns(i)
           /\ worker[i].pc = "running"
           /\ now >= exec[i].deadline
           /\ exec'[i].res.via # "ctx")
          => /\ exec'[i].res.Status = StatusRunning
             /\ exec'[i].res.OperationID = generateID(i)
             /\ exec'[i].res.OperationID # NoOperationID
             /\ exec'[i].res.OperationType = OpType(i)
             /\ exec'[i].res.Result = NoResult
             /\ i \in operations'
             /\ ~(ops'[i].cancelled /\ ops'[i].EndTime # ZeroTime
                                    /\ ops'[i].EndTime < now)
             /\ worker'[i].pc = "running"]_vars

\* Cancel has passed its test of op.Status for operation i
CancelCalled(i) == i \in canc.ok \/ (canc.pc # "idle" /\ canc.op = i)

\* Execute for i returned because the caller's context was cancelled, the
\* operation function returned a value and a nil error, and Continue call k,
\* made after the completion signal had fired, has returned
C5_Subsequent(k, i) ==
    /\ cont[k].pc = "returned" /\ cont[k].op = i /\ cont[k].signalled
    /\ exec[i].pc = "returned" /\ exec[i].res.via = "ctx"
    /\ Returned(i) /\ worker[i].err = NoError

C5_Completed(k, i) ==
    /\ cont[k].res.err = NoError
    /\ cont[k].res.Status = StatusCompleted
    /\ cont[k].res.Result = worker[i].value

\* the step in which Execute returns on <-ctx.Done(): running, with the id,
\* and neither the record (its cancel handle included) nor the worker changes
C5_CtxDoneStep ==
    \A i \in Ops :
        (ExecuteReturns(i) /\ exec'[i].res.via = "ctx")
        => /\ exec'[i].res.Status = StatusRunning
           /\ exec'[i].res.OperationID = generateID(i)
           /\ ops'[i] = ops[i]
           /\ worker'[i] = worker[i]

\* C5 (as stated): cancelling the caller's context never cancels the
\* operation's own context: Execute returns running with the id, the worker
\* keeps running, and once the function has returned a value with a nil error
\* every subsequent Continue returns completed with that value.
C5_CallerCancelThenContinue ==
    /\ [][C5_CtxDoneStep]_vars
    /\ [](\A k \in Waiters, i \in Ops : C5_Subsequent(k, i) => C5_Completed(k, i))

\* C5 (amended): the same, for a Continue made while the record is retained
\* and for an operation on which no Cancel has been called and no sweeper
\* pass has enforced the maximum lifetime.
C5_CallerCancelThenContinue_Amended ==
    /\ [][C5_CtxDoneStep]_vars
    /\ [](\A k \in Waiters, i \in Ops :
            (/\ C5_Subsequent(k, i)
             /\ cont[k].res.via # "get"
             /\ ~CancelCalled(i)
             /\ i \notin sweep.enforced)
            => C5_Completed(k, i))

C5_Witness ==
    \E k \in Waiters, i \in Ops :
        /\ C5_Subsequent(k, i)
        /\ cont[k].res.via = "status"
        /\ ~CancelCalled(i) /\ i \notin sweep.enforced
        /\ C5_Completed(k, i)
        /\ cont[k].res.Result = OpValue(i)

\* C6: every Continue called after Cancel has returned nil for the operation,
\* while the record is retained (and unless the Continue's own context is
\* cancelled), returns failed with the error "operation cancelled".
C6_CancelThenContinue ==
    \A k \in Waiters :
        (/\ cont[k].pc = "returned"
         /\ cont[k].cancelOk
         /\ cont[k].res.via \notin {"get", "ctx"})
        => /\ cont[k].res.Status = StatusFailed
           /\ cont[k].res.Error = ErrCancelled

\* C7: once a record's status is completed or failed it never changes, and
\* an error or a result once stored in the record is never overwritten.
C7_StatusChangesOnce ==
    [][\A i \in Ops :
          /\ ops[i].Status \in {StatusCompleted, StatusFailed}
                => ops'[i].Status = ops[i].Status
          /\ ops[i].Error # NoError => ops'[i].Error = ops[i].Error
          /\ ops[i].Result # NoResult => ops'[i].Result = ops[i].Result]_vars

\* C8: a Continue that finds the status other than running reports a final
\* state that is populated: completed with the result, or failed with the
\* error.
C8_AtomicObservation ==
    \A k \in Waiters :
        (cont[k].pc = "returned" /\ cont[k].res.via = "status")
        => /\ cont[k].res.Status = StatusCompleted => cont[k].res.Result # NoResult
           /\ cont[k].res.Status = StatusFailed => cont[k].res.Error # NoError

\* C9: the completion signal of a record is closed if and only if its status
\* is not running (checked outside the worker's own window between its
\* assignment to op.Status and its deferred close).
C9_ClosedIffNotRunning ==
    \A i \in Ops :
        (ops[i].Status # "none" /\ worker[i].pc \notin {"outcome", "defers"})
        => (ops[i].closed <=> ops[i].Status # StatusRunning)

\* Continue call k observed the operation after its completion signal fired
AfterSignal(c) ==
    /\ c.pc = "returned"
    /\ c.res.via \in {"status", "complete"}
    /\ c.signalled \/ c.res.via = "complete"

\* C10: two Continue calls for the same id, both made after the completion
\* signal has fired and while the record is retained, return the same status,
\* result and error.
C10_SameTerminalState ==
    [][\A k \in Waiters :
          (/\ AfterSignal(cont[k]) /\ AfterSignal(cont'[k])
           /\ cont'[k].op = cont[k].op)
          => /\ cont'[k].res.Status = cont[k].res.Status
             /\ cont'[k].res.Result = cont[k].res.Result
             /\ cont'[k].res.Error = cont[k].res.Error]_vars

\* Continue call c entered its select while the operation was running and
\* was released by the completion signal
Released(c) == c.pc = "returned" /\ ~c.signalled /\ c.res.via = "complete"

\* C11: the Continue calls that were waiting on the same running operation
\* when its completion signal fired all return the same terminal status,
\* the same result and the same error.
C11_WaitersAgree ==
    \A k1 \in DOMAIN cont, k2 \in DOMAIN cont :
        (Released(cont[k1]) /\ Released(cont[k2]) /\ cont[k1].op = cont[k2].op)
        => /\ cont[k1].res.Status = cont[k2].res.Status
           /\ cont[k1].res.Result = cont[k2].res.Result
           /\ cont[k1].res.Error = cont[k2].res.Error

\* C12: a record leaves the registry only when its status is completed or
\* failed and more than RetentionPeriod has passed since its endTime: no
\* step removes a record that is running or whose endTime is not yet set or
\* lies less than RetentionPeriod in the past.
C12_ResolvableUntilRetention ==
    [][\A i \in Ops :
          (i \in operations /\ i \notin operations')
          => /\ ops[i].Status \in {StatusCompleted, StatusFailed}
             /\ ops[i].EndTime # ZeroTime
             /\ now - ops[i].EndTime > config.RetentionPeriod]_vars

\* C13: the id under which Execute registers a record is not the id of any
\* record in the registry at that moment, so no record is replaced.
C13_FreshIds ==
    [][\A i \in ManyOps :
          (i \notin operations /\ i \in operations')
          => /\ \A j \in operations : ops[j].ID # ops'[i].ID
             /\ operations \subseteq operations']_vars

\* a sweeper pass has enforced the maximum lifetime on record i and has
\* finished its three assignments
LifetimeEnforced(i) ==
    /\ i \in sweep.enforced
    /\ ~(sweep.pc \in {"status", "error", "endTime"} /\ sweep.op = i)

\* C14: a record on which a sweeper pass has enforced the maximum lifetime
\* has its cancel handle invoked, an endTime, and keeps the status failed
\* with the lifetime-exceeded error for as long as it is in the registry.
C14_LifetimeFailureKept ==
    \A i \in Ops :
        (LifetimeEnforced(i) /\ i \in operations)
        => /\ ops[i].cancelled
           /\ ops[i].EndTime # ZeroTime
           /\ ops[i].Status = StatusFailed
           /\ ops[i].Error = ErrLifetime

\* C15: every record that is running, and whose maximum lifetime ends
\* before the clock of the model does, eventually has a status other than
\* running, whether or not its operation function ever returns.
C15_NoOperationRunsForever ==
    \A i \in Ops :
        (ops[i].Status = StatusRunning
            /\ ops[i].StartTime + config.MaxLifetime < MaxTime)
        ~> (ops[i].Status # StatusRunning)

\* the sweeper has failed a record whose operation function has not returned
C15_Witness ==
    \E i \in Ops :
        /\ LifetimeEnforced(i) /\ worker[i].pc = "running"
        /\ ~CancelCalled(i)
        /\ ops[i].Status = StatusFailed /\ ops[i].Error = ErrLifetime

\* record i is completed or failed and more than RetentionPeriod has passed
\* since its endTime
Expired(i) ==
    /\ ops[i].Status \in {StatusCompleted, StatusFailed}
    /\ ops[i].EndTime # ZeroTime
    /\ now - ops[i].EndTime > config.RetentionPeriod

\* C16: a record in the registry that is completed or failed, with more than
\* RetentionPeriod passed since its endTime, is eventually removed from the
\* registry (unless a late write of the worker or of Cancel gives it a new
\* endTime first, from which the retention period runs again).
C16_ExpiredEventuallyRemoved ==
    \A i \in Ops :
        (i \in operations /\ Expired(i)) ~> (i \notin operations \/ ~Expired(i))

\* a record ended by Cancel, whose operation function never returned, has
\* been removed after its retention period
C16_Witness ==
    \E i \in Ops :
        /\ i \in canc.ok /\ worker[i].pc = "running"
        /\ Expired(i) /\ ops[i].Error = ErrCancelled
        /\ i \notin operations
        /\ sweep.pc = "idle"

\* C17: a Continue called for a registered id whose record has a status
\* other than running returns in that same step, with the record's status,
\* the id, the operation type, and the record's result (completed) or
\* error (failed).
C17_ContinueOnTerminal ==
    [][\A k \in Waiters :
          (/\ cont[k].pc # "waiting" /\ cont'[k] # cont[k]
           /\ cont'[k].op \in operations
           /\ ops[cont'[k].op].Status # StatusRunning)
          => LET i == cont'[k].op
                 r == cont'[k].res
             IN /\ cont'[k].pc = "returned"
                /\ r.err = NoError
                /\ r.Status = ops[i].Status
                /\ r.OperationID = ops[i].ID
                /\ r.OperationType = OpType(i)
                /\ ops[i].Status = StatusCompleted => r.Result = ops[i].Result
                /\ ops[i].Status = StatusFailed => r.Error = ops[i].Error]_vars

C19_ContinueNotFound ==
    [][\A k \in Waiters :
          (/\ cont[k].pc # "waiting" /\ cont'[k] # cont[k]
           /\ cont'[k].op \notin operations)
          => /\ cont'[k].pc = "returned"
             /\ cont'[k].res.err = ErrNotFound
             /\ cont'[k].res.Status = "none"
             /\ cont'[k].res.Result = NoResult
             /\ cont'[k].res.OperationID = NoOperationID
             /\ ops' = ops /\ operations' = operations /\ worker' = worker]_vars

\* a Continue has found no record for the id of an operation that was
\* registered and has been evicted since
C19_Witness ==
    \E k \in Waiters :
        /\ cont[k].pc = "returned" /\ cont[k].res.err = ErrNotFound
        /\ cont[k].op \notin operations
        /\ exec[cont[k].op].pc # "idle"
        /\ ops[cont[k].op].Status # "none"

\* C20: a Cancel called for a registered id whose record is completed or
\* failed returns the "not running" error, and a Cancel called for an id
\* that is not in the registry returns the "not found" error; in both cases
\* the step changes no record (the cancel handle is not invoked), not the
\* registry and not the worker.
C20_CancelErrors ==
    [][(canc.pc = "idle" /\ canc' # canc)
        => LET i == canc'.op
           IN /\ i \notin operations
                    => /\ canc'.pc = "idle" /\ canc'.res = ErrNotFound
                       /\ ops' = ops /\ operations' = operations
                       /\ worker' = worker
              /\ (i \in operations
                     /\ ops[i].Status \in {StatusCompleted, StatusFailed})
                    => /\ canc'.pc = "idle" /\ canc'.res = ErrNotRunning
                       /\ ops' = ops /\ operations' = operations
                       /\ worker' = worker]_vars

\* a Cancel of an operation that had completed on its own has returned the
\* "not running" error
C20_Witness ==
    /\ canc.pc = "idle" /\ canc.res = ErrNotRunning
    /\ canc.op \in operations
    /\ canc.ok = {}
    /\ worker[canc.op].pc = "done"
    /\ ops[canc.op].Status = StatusCompleted
    /\ ~(canc.op \in sweep.enforced)

(***************************************************************************)
(* Claims about the shutdown of the executor.                              *)
(***************************************************************************)
\* C21: when Stop returns, the ticker goroutine has exited, no pass of the
\* sweeper is in progress and the cancel handle of every operation in the
\* registry has been invoked; after Stop has returned the ticker goroutine
\* stays exited and no pass of the sweeper starts.
C21_StopCancelsAll ==
    [][
        /\ (stop.pc # "returned" /\ stop'.pc = "returned")
            => /\ stop'.sweeper = "exited" /\ sweep'.pc = "idle"
               /\ \A i \in operations : ops'[i].cancelled
               /\ operations' = operations
        /\ (stop.pc = "returned")
            => /\ stop'.pc = "returned" /\ stop'.sweeper = "exited"
               /\ sweep' = sweep]_vars

\* Stop has returned after a pass of the sweeper, with a running operation
\* in the registry that nothing else had cancelled
C21_Witness ==
    /\ stop.pc = "returned"
    /\ \E i \in operations :
          /\ ops[i].Status = StatusRunning /\ ops[i].cancelled
          /\ worker[i].pc = "running"
          /\ ~CancelCalled(i) /\ i \notin sweep.enforced
          /\ now > ops[i].StartTime

(***************************************************************************)
(* Claims about the stdio transport.                                       *)
(***************************************************************************)
\* C22: once a call of Stop has returned, the request stream and the error
\* stream are closed, and a call of Send that began after a Stop had
\* returned has returned the "transport is closed" error without reaching
\* the write.
C22_SendAfterStop ==
    /\ StopReturned => /\ transport.requests = "closed"
                       /\ transport.errors = "closed"
    /\ sender.late => /\ sender.pc = "returned"
                      /\ sender.res = ErrTransportClosed

\* the owner has called Send after its own Stop returned, on a transport
\* whose read loop was still running when it was stopped
C22_Witness ==
    /\ stops["owner"].pc = "returned"
    /\ stops["readLoop"].pc = "idle"
    /\ sender.late /\ sender.pc = "returned"
    /\ sender.res = ErrTransportClosed
    /\ transport.written = 0

\* C23: no call of Stop panics (a channel is never closed a second time),
\* whoever calls it and however the calls interleave, and when a call has
\* returned the done, request and error channels are closed.
C23_StopIdempotent ==
    \A c \in StopCallers :
        /\ stops[c].pc # "panicked"
        /\ stops[c].pc = "returned"
              => /\ transport.isClosed
                 /\ transport.done = "closed"
                 /\ transport.requests = "closed"
                 /\ transport.errors = "closed"

\* the owner, the read loop and Run have each called Stop, and each call
\* has returned
C23_Witness ==
    /\ \A c \in StopCallers : stops[c].pc = "returned" /\ stops[c].n > 0
    /\ readLoop.pc = "exited"
    /\ runPc = "returned"

\* the decoder has consumed every message of an input that has ended
EndOfInput == decoder.input = <<>> /\ decoder.end # "open"

\* the transport is stopped: the request stream is closed and Send fails
Stopped == transport.isClosed /\ transport.requests = "closed"

\* C24: once the input has ended and its messages are consumed, the
\* transport is eventually stopped, whether or not anybody calls Stop.
C24_EndOfInputStops == EndOfInput ~> Stopped

\* C25: once the context given to Start is cancelled, the transport is
\* eventually stopped, wherever the read loop is at that moment.
C25_CancelStops == readLoop.ctxDone ~> Stopped

\* the next message on the input fails to decode and a well-formed
\* version-2.0 request follows it, with no decoded message pending
FailsThenRequest ==
    /\ Len(decoder.input) >= 2
    /\ decoder.input[1].kind \in {"syntax", "typeError"}
    /\ decoder.input[2] = ItemRequest20
    /\ readLoop.pc \in {"select", "decode"}

\* C26: a message that fails to decode does not disturb the next one: when
\* a well-formed version-2.0 request follows it, that request is eventually
\* published to Run (Run counts one more request), unless the transport is
\* stopped or its context cancelled in the meantime.
C26_DecodeErrorResyncs ==
    \A m \in 0..MaxReqs :
        (FailsThenRequest /\ requestCount = m)
            ~> (requestCount > m \/ Stopped \/ readLoop.ctxDone)

\* the read loop leaves the select in which it emits a version error
VersionErrorStep ==
    /\ readLoop.pc = "emit"
    /\ readLoop.err = VersionError(readLoop.item.jsonrpc)
    /\ readLoop'.pc # "emit"

\* a request is published only if its version is "2.0"
PublishesOnly20 ==
    requestCount' # requestCount
        => /\ readLoop.item.kind = "request"
           /\ readLoop.item.jsonrpc = "2.0"

\* the loop ends because the transport is stopped or the context cancelled
LoopEnds == readLoop'.pc = "deferStop" /\ LoopDone

C28_RunReturnsOnClose ==
    /\ [](runPc = "returned" => stops["Run"].pc = "returned")
    /\ (transport.requests = "closed") ~> (runPc = "returned")

\* Run is in its loop
InLoop == runPc \in {"loop", "select"}

\* C29: Run leaves its loop only on the closed request stream, whatever
\* errors it has received and whatever the handlers have returned: while
\* the request stream is open Run is in its loop, and every request it
\* receives there is handed to a new handleRequest goroutine.
C29_RunSurvivesErrors ==
    /\ [](transport.requests = "open" => InLoop)
    /\ [][/\ (InLoop /\ ~InLoop')
               => (transport.requests = "closed" /\ runPc' = "deferStop")
          /\ (requestCount' # requestCount)
               => /\ InLoop /\ InLoop'
                  /\ requestCount' = requestCount + 1
                  /\ tasks[requestCount'].pc = "none"
                  /\ tasks'[requestCount'].pc = "start"]_vars

\* Run has received a decode error, then dispatched the request that
\* followed it; the handler of that request has returned an error, which
\* was sent as the response, and Run is in its loop
C29_Witness ==
    /\ received = <<DecodeError(ErrUnmarshalType)>>
    /\ requestCount = 1
    /\ tasks[1].pc = "done"
    /\ Len(sendCalls[1]) = 1
    /\ sendCalls[1][1].kind = "error"
    /\ sendCalls[1][1].body \in HandlerErrors
    /\ InLoop
    /\ transport.requests = "open"

(***************************************************************************)
(* Claims about the initialize response.                                   *)
(***************************************************************************)
\* the result responses sent for initialize requests
InitializeResults ==
    { sendCalls[t][n].body :
        t \in { u \in Tasks : /\ tasks[u].req.method = MethodInitialize
                              /\ sendCalls[u] # <<>>
                              /\ sendCalls[u][1].kind = "result" },
        n \in {1} }

\* C30: the capabilities object of every initialize response has the key
\* tools exactly if a tool handler is registered, resources exactly if a
\* resource handler is, prompts exactly if a prompt handler is; the response
\* carries protocolVersion "2024-11-05", the default name "mcp-server" for
\* the name left empty and the configured version "2.1.0".
C30_InitializeResponse ==
    \A r \in InitializeResults :
        /\ CapabilityKeys(r.Capabilities)
              = { c \in Categories : HasHandler(c) }
        /\ r.ProtocolVersion = "2024-11-05"
        /\ r.ServerInfo = [Name |-> "mcp-server", Version |-> "2.1.0"]

\* an initialize response has been sent by a server with a resource
\* handler only
C30_Witness ==
    /\ registry = RegistryWith({"resources"})
    /\ \E r \in InitializeResults : CapabilityKeys(r.Capabilities) = {"resources"}

(***************************************************************************)
(* Claims about the dispatch table.                                        *)
(***************************************************************************)
\* the requests whose handleRequest has returned
Handled == { t \in Tasks : tasks[t].pc = "done" }

\* C31: a tools/list, resources/list or prompts/list request whose
\* category has a handler is answered with the list result that handler
\* returned; one whose category has no handler is answered with one
\* successful result holding the category's empty list, never with an error.
C31_ListMethods ==
    \A t \in Handled :
        LET req == tasks[t].req
        IN req.method \in ListMethods =>
              IF HasHandler(Category(req.method))
              THEN tasks[t].err = NoError =>
                      sendCalls[t] = <<ResultResponse(req.id, tasks[t].result)>>
              ELSE sendCalls[t] =
                      <<[id |-> req.id, kind |-> "result", code |-> 0,
                         body |-> [key |-> Category(req.method), list |-> <<>>]]>>

\* resources/list answered with the empty list by a server that has a tool
\* handler only, and tools/list answered with that handler's list
C31_Witness ==
    /\ registry = RegistryWith({"tools"})
    /\ tasks[1].pc = "done" /\ tasks[1].req.method = MethodResourcesList
    /\ sendCalls[1][1].body = [key |-> "resources", list |-> <<>>]
    /\ tasks[2].pc = "done" /\ tasks[2].req.method = MethodToolsList
    /\ sendCalls[2] # <<>>
    /\ sendCalls[2][1].body = [key |-> "tools", list |-> <<"a">>]

\* the handler of request t has not been called
NotInvoked(t) ==
    /\ tasks[t].pc # "inHandler"
    /\ tasks[t].result = NilResult
    /\ tasks[t].err = NoError

\* C32: a request with an id to initialize, or to tools/call,
\* resources/read or prompts/get with the category's handler registered,
\* whose params do not decode into the method's request struct, gets
\* exactly one response, an error with code -32602, and the capability
\* handler is not called for it.
C32_InvalidParams ==
    \A t \in Spawned :
        LET req == tasks[t].req
        IN (/\ req.id # NoId
            /\ \/ req.method = MethodInitialize
               \/ req.method \in CallMethods /\ HasHandler(Category(req.method))
            /\ ~UnmarshalOK(req.params)) =>
              /\ NotInvoked(t)
              /\ Len(sendCalls[t]) <= 1
              /\ \A n \in 1..Len(sendCalls[t]) :
                    /\ sendCalls[t][n].kind = "error"
                    /\ sendCalls[t][n].code = -32602
                    /\ sendCalls[t][n].id = req.id
              /\ (tasks[t].pc = "done" => Len(sendCalls[t]) = 1)

\* (C32 for the three methods that call a capability handler)
C32_CallMethods ==
    \A t \in Spawned :
        LET req == tasks[t].req
        IN (/\ req.id # NoId
            /\ req.method \in CallMethods /\ HasHandler(Category(req.method))
            /\ ~UnmarshalOK(req.params)) =>
              /\ NotInvoked(t)
              /\ \A n \in 1..Len(sendCalls[t]) : sendCalls[t][n].code = -32602
              /\ (tasks[t].pc = "done" => Len(sendCalls[t]) = 1)

\* C33: when the capability handler of a request with an id has returned an
\* error, the server has called transport.Send exactly once for the request,
\* with an error response of code -32603 whose message is the text of the
\* handler's error, with the request's id and without a result.
C33_HandlerError ==
    \A t \in Spawned :
        LET req == tasks[t].req
        IN (req.id # NoId /\ tasks[t].err # NoError) =>
              sendCalls[t] = <<[id |-> req.id, kind |-> "error",
                                code |-> -32603, body |-> tasks[t].err]>>

\* the handler of a tools/call failed with "tool failed" while the handler
\* of a resources/read failed with "no such resource"
C33_Witness ==
    /\ tasks[1].req.method = MethodToolsCall /\ tasks[1].req.id = <<1>>
    /\ tasks[1].err = "tool failed"
    /\ sendCalls[1] # <<>> /\ sendCalls[1][1].body = "tool failed"
    /\ tasks[2].req.method = MethodResourcesRead /\ tasks[2].req.id = <<2>>
    /\ tasks[2].err = "no such resource"
    /\ sendCalls[2] # <<>> /\ sendCalls[2][1].body = "no such resource"

\* C34: a request with an id that has been handled and could not be
\* routed has exactly one response, an error of code -32603 with the
\* request's id: "unknown method: X" for a method X outside the dispatch
\* table, "tools not supported", "resources not supported" or "prompts not
\* supported" for tools/call, resources/read or prompts/get whose category
\* has no handler.
C34_NotRouted ==
    \A t \in Handled :
        LET req == tasks[t].req
            error(message) == <<[id |-> req.id, kind |-> "error",
                                 code |-> -32603, body |-> message]>>
        IN /\ (req.id # NoId /\ req.method = MethodOther) =>
                 sendCalls[t] = error("unknown method: notifications/cancelled")
           /\ (req.id # NoId /\ req.method = MethodToolsCall
                             /\ ~HasHandler("tools")) =>
                 sendCalls[t] = error("tools not supported")
           /\ (req.id # NoId /\ req.method = MethodResourcesRead
                             /\ ~HasHandler("resources")) =>
                 sendCalls[t] = error("resources not supported")
           /\ (req.id # NoId /\ req.method = MethodPromptsGet
                             /\ ~HasHandler("prompts")) =>
                 sendCalls[t] = error("prompts not supported")

\* an unknown method and a prompts/get without prompt handler, both answered
C34_Witness ==
    /\ ~HasHandler("prompts")
    /\ tasks[1].pc = "done" /\ tasks[1].req.id = <<1>>
    /\ tasks[1].req.method = MethodOther
    /\ sendCalls[1] # <<>>
    /\ sendCalls[1][1].body = "unknown method: notifications/cancelled"
    /\ tasks[2].pc = "done" /\ tasks[2].req.id = <<2>>
    /\ tasks[2].req.method = MethodPromptsGet
    /\ sendCalls[2] # <<>>
    /\ sendCalls[2][1].body = "prompts not supported"

(***************************************************************************)
(* Claims about the handler registry.                                      *)
(***************************************************************************)
\* the handler registered last for a category by the calls cs, nil if none
LastRegistered(cs, category) ==
    LET regs == { n \in 1..Len(cs) : /\ cs[n].op = "Register"
                                      /\ cs[n].category = category }
    IN IF regs = {}
       THEN NilHandler
       ELSE cs[CHOOSE n \in regs : \A m \in regs : m <= n].handler

\* C35: on a new registry, every call Get<Category> returns the handler of
\* the latest Register<Category> made before it, nil if there was none, and
\* every call Has<Category> returns true exactly if there was one; the
\* Register calls of the other two categories have no effect on it.
C35_LastRegistrationWins ==
    \A n \in 1..Len(calls) :
        LET before == LastRegistered(SubSeq(calls, 1, n - 1), calls[n].category)
        IN /\ calls[n].op = "Get" => calls[n].handler = before
           /\ calls[n].op = "Has" => calls[n].present = (before # NilHandler)

\* two handlers registered for tools one after the other, then
\* GetToolHandler returned the second
C35_Witness ==
    /\ Len(calls) = 3
    /\ calls[1] = [op |-> "Register", category |-> "tools",
                   handler |-> "h1", present |-> FALSE]
    /\ calls[2] = [op |-> "Register", category |-> "tools",
                   handler |-> "h2", present |-> FALSE]
    /\ calls[3] = [op |-> "Get", category |-> "tools",
                   handler |-> "h2", present |-> FALSE]

(***************************************************************************)
(* Claims about the publication of the worker's writes.                    *)
(***************************************************************************)
\* C36: in every state in which the CompleteCh of an operation is closed,
\* its record has a status other than running, an EndTime that is set, and
\* the result the operation function returned if it returned a nil error,
\* the error it returned otherwise.
C36_PublishedBeforeSignal ==
    \A i \in Ops :
        ops[i].closed =>
           /\ ops[i].Status # StatusRunning
           /\ ops[i].EndTime # ZeroTime
           /\ IF worker[i].err = NoError
              THEN ops[i].Result = worker[i].value
              ELSE ops[i].Error = worker[i].err

\* (the part of C36 that is the worker's: it closes CompleteCh after its
\* three writes)
C36_WorkerWritesFirst ==
    [][\A i \in Ops :
          (~ops[i].closed /\ ops'[i].closed) =>
             /\ worker[i].pc = "defers"
             /\ ops[i].EndTime # ZeroTime
             /\ ops[i].Status # StatusRunning
             /\ worker[i].err = NoError => ops[i].Result = worker[i].value]_vars

(***************************************************************************)
(* Claims about the concurrency of the handlers.                           *)
(***************************************************************************)
\* C37: while the handler of a request is executing, Server.Run can receive
\* the next request, every other request that was received can be handled
\* and its handler can return, and every response sent carries the id of
\* its own request.
C37_SlowHandlerDoesNotBlock ==
    /\ \A t \in Tasks :
          tasks[t].pc = "inHandler" =>
             /\ (runPc = "loop" /\ requestCount < MaxReqs) => ENABLED RunReceive
             /\ \A u \in Tasks \ {t} :
                   /\ tasks[u].pc = "start" => ENABLED HandleRequest(u)
                   /\ tasks[u].pc = "inHandler" => ENABLED HandlerReturn(u)
    /\ \A t \in Tasks : \A n \in 1..Len(sendCalls[t]) :
          sendCalls[t][n].id = tasks[t].req.id

\* the handler of the first request is still executing; the second request
\* was received after it, went through its handler and has its response
C37_Witness ==
    /\ tasks[1].pc = "inHandler" /\ sendCalls[1] = <<>>
    /\ tasks[1].req.method = MethodToolsCall /\ tasks[1].req.id = <<1>>
    /\ tasks[2].pc = "done" /\ tasks[2].req.method = MethodToolsCall
    /\ tasks[2].req.id = <<2>> /\ tasks[2].result # NilResult
    /\ sendCalls[2] = <<[id |-> <<2>>, kind |-> "result", code |-> 0,
                         body |-> tasks[2].result]>>

(***************************************************************************)
(* Claims about the transport under concurrent calls.                      *)
(***************************************************************************)
\* C38: the read loop never takes the send case of a select on a request
\* channel or an error channel that Stop has closed: it never panics,
\* whoever calls Stop and at whatever moment.
C38_NoSendOnClosed ==
    [][~(/\ \/ readLoop.pc = "emit" /\ transport.errors = "closed"
            \/ readLoop.pc = "publish" /\ transport.requests = "closed"
         /\ readLoop'.panicking)]_vars

\* C39: nothing is written to the output once a call of Stop has returned:
\* a Send that runs concurrently with Stop has written its response before
\* Stop returns, or it returns the "transport is closed" error.
C39_NoWriteAfterStop ==
    [][StopReturned => transport'.written = transport.written]_vars

(***************************************************************************)
(* Claims about a repeated shutdown of the executor.                       *)
(***************************************************************************)
\* C40: no call of Stop on the executor panics: a call made after Stop has
\* returned does not close the sweeper's stop channel a second time.
C40_StopTwice == stop.pc # "panicked"

====
